---- MODULE Spec2Model ----
(***************************************************************************)
(* Mittens 2.0 (ImageJ plugin): channel extraction, merging, on-demand     *)
(* 16-bit channel copies and horizontal montage assembly, modelled over a  *)
(* heap of host images.  An image reference is its index in heap; 0 is the *)
(* JavaScript null.                                                        *)
(***************************************************************************)
EXTENDS Integers, Sequences, FiniteSets, TLC

VARIABLES
    heap,                            \* every ImagePlus the host has created, by id
    currentImage,                    \* the host's active image (IJ.getImage()), 0 if none
    originalImage,
    duplicatedCroppedImage,
    splitInvertedChannels,
    splitInvertedChannelsFullStack,
    finalAlignedImage,
    mergeCount,
    messages,                        \* titles of the IJ.showMessage boxes of the last handler
    last,                            \* the last call: its name, arguments and result
    steps                            \* presses so far that changed the heap or mergeCount

vars == <<heap, currentImage, originalImage, duplicatedCroppedImage,
          splitInvertedChannels, splitInvertedChannelsFullStack,
          finalAlignedImage, mergeCount, messages, last, steps>>

\* ---------------------------------------------------------------- bounds
MaxInputs == 2

MaxFrames == 3

MaxOps == 3

MaxSlices == 2

MaxSrcFrames == 2

\* ------------------------------------------------------- program constants
NumChannelSlots == 4

NumAlignmentChoices == 5

InitialMergeCount == 1

baseChannelOptions == <<"None", "Ch1", "Ch2", "Ch3", "Ch4", "Merge">>

null == 0

\* ------------------------------------------------------------- host data
\* Calibration of an image the host creates from nothing (ij.measure.Calibration).
DefaultCal ==
    [pixelWidth |-> 1, pixelHeight |-> 1, unit |-> "pixel", frameInterval |-> 0, fps |-> 0]

\* Calibrations a user-opened image may carry.
AcquiredCal ==
    [pixelWidth |-> 2, pixelHeight |-> 3, unit |-> "um", frameInterval |-> 5, fps |-> 7]

OtherCal ==
    [pixelWidth |-> 4, pixelHeight |-> 6, unit |-> "nm", frameInterval |-> 9, fps |-> 11]

BitDepths == {8, 16, 24, 32}

Widths == {100, 150}

Heights == {256, 512}

\* An ImagePlus: dimensions, calibration, window state and what its planes hold.
\*   chans   the source channels it carries, in order
\*   blocks  for a montage, per frame, the pixel blocks inserted into it
BlankImage ==
    [kind |-> "source", title |-> <<"src">>, width |-> 100, height |-> 256, bitDepth |-> 8,
     nChannels |-> 1, nSlices |-> 1, nFrames |-> 1, slice |-> 1,
     cal |-> DefaultCal, open |-> TRUE, visible |-> FALSE, changes |-> FALSE,
     from |-> 0, chans |-> <<1>>, zsel |-> 0, tsel |-> 0, inverted |-> FALSE,
     blocks |-> <<>>]

\* The module-level state the functions share, as one value.
World ==
    [heap |-> heap, cur |-> currentImage, orig |-> originalImage,
     dupc |-> duplicatedCroppedImage, sic |-> splitInvertedChannels,
     sicFull |-> splitInvertedChannelsFullStack, final |-> finalAlignedImage,
     mergeCount |-> mergeCount, msgs |-> <<>>]

Install(w) ==
    /\ heap' = w.heap
    /\ currentImage' = w.cur
    /\ originalImage' = w.orig
    /\ duplicatedCroppedImage' = w.dupc
    /\ splitInvertedChannels' = w.sic
    /\ splitInvertedChannelsFullStack' = w.sicFull
    /\ finalAlignedImage' = w.final
    /\ mergeCount' = w.mergeCount
    /\ messages' = w.msgs

\* IJ.showMessage(title, text)
ShowMessage(w, title) == [w EXCEPT !.msgs = Append(@, title)]

\* A new ImagePlus enters the heap; its id is its position.
NewImage(w, img) == [w EXCEPT !.heap = Append(@, img)]

\* imp.show(): an image without a window gets one and becomes the active image.
Show(w, id) ==
    IF w.heap[id].visible THEN w ELSE [w EXCEPT !.heap[id].visible = TRUE, !.cur = id]

\* imp.hide() / closing a window: the active image falls back to the newest window left.
MostRecentWindow(h) ==
    LET windows == {id \in 1..Len(h) : h[id].visible /\ h[id].open}
    IN IF windows = {} THEN null ELSE CHOOSE id \in windows : \A o \in windows : o <= id

\* imp.close()
Close(w, id) ==
    LET h == [w.heap EXCEPT ![id].open = FALSE, ![id].visible = FALSE]
    IN [w EXCEPT !.heap = h, !.cur = IF w.cur = id THEN MostRecentWindow(h) ELSE w.cur]

\* imp.hide()
Hide(w, id) ==
    LET h == [w.heap EXCEPT ![id].visible = FALSE]
    IN [w EXCEPT !.heap = h, !.cur = IF w.cur = id THEN MostRecentWindow(h) ELSE w.cur]

\* imp.changes = false
MarkUnchanged(w, id) == [w EXCEPT !.heap[id].changes = FALSE]

RECURSIVE CloseEach(_, _)
CloseEach(w, ids) ==
    IF ids = <<>> THEN w ELSE CloseEach(Close(w, Head(ids)), Tail(ids))

RECURSIVE MarkEachUnchanged(_, _)
MarkEachUnchanged(w, ids) ==
    IF ids = <<>> THEN w ELSE MarkEachUnchanged(MarkUnchanged(w, Head(ids)), Tail(ids))

\* imp.changes = false; imp.close(); for one image after the other
RECURSIVE MarkAndCloseEach(_, _)
MarkAndCloseEach(w, ids) ==
    IF ids = <<>> THEN w
    ELSE MarkAndCloseEach(Close(MarkUnchanged(w, Head(ids)), Head(ids)), Tail(ids))

\* IJ.selectWindow(title): the first window carrying the title becomes active.
SelectWindow(w, title) ==
    LET named == {id \in 1..Len(w.heap) :
                     w.heap[id].visible /\ w.heap[id].open /\ w.heap[id].title = title}
    IN IF named = {} THEN w
       ELSE [w EXCEPT !.cur = CHOOSE id \in named : \A o \in named : id <= o]

\* The host's stack order is channel-fastest: index = (t-1)*Z*C + (z-1)*C + c.
HostZ(img) == (((img.slice - 1) \div img.nChannels) % img.nSlices) + 1

HostT(img) == ((img.slice - 1) \div (img.nChannels * img.nSlices)) + 1

\* Faulty variant: the index is not reduced to one frame's planes first.
CurrentZ_NoWrap(img) == ((img.slice - 1) \div img.nChannels) + 1

\* currentZ = Math.floor(((currentSlice - 1) % (nSlices * nChannels)) / nChannels + 1)
CurrentZ(img) == (((img.slice - 1) % (img.nSlices * img.nChannels)) \div img.nChannels) + 1

\* IJ.run(imp, "Duplicate...", ...): a new shown image, the active one afterwards.
\* allFrames: "frames=1-nFrames" at Z position z; otherwise the current plane only.
Duplicate(w, id, allFrames, z, title, kind) ==
    LET src == w.heap[id]
        dup == [src EXCEPT
                   !.kind = kind, !.title = title, !.from = id,
                   !.nSlices = 1,
                   !.nFrames = IF allFrames THEN src.nFrames ELSE 1,
                   !.slice = 1,
                   !.zsel = IF allFrames THEN z ELSE HostZ(src),
                   !.tsel = IF allFrames THEN src.tsel ELSE HostT(src),
                   !.open = TRUE, !.visible = FALSE, !.changes = FALSE]
    IN Show(NewImage(w, dup), Len(w.heap) + 1)

\* The host's unique name for an untitled duplicate.
DuplicateTitle(title) == Append(title, "-1")

\* ChannelSplitter.split(imp): one image per channel (three for an RGB image), not shown.
SplitCount(img) == IF img.bitDepth = 24 THEN 3 ELSE img.nChannels

SplitImage(img, id, c, kind) ==
    [img EXCEPT
        !.kind = kind, !.title = <<"C", ToString(c), "-">> \o img.title, !.from = id,
        !.nChannels = 1, !.slice = 1,
        !.bitDepth = IF img.bitDepth = 24 THEN 8 ELSE @,
        !.chans = IF img.bitDepth = 24 \/ c > Len(img.chans) THEN <<c>> ELSE <<img.chans[c]>>,
        !.blocks = <<>>,
        !.open = TRUE, !.visible = FALSE, !.changes = FALSE]

ChannelSplit(w, id, kind) ==
    LET img == w.heap[id]
        n == SplitCount(img)
        first == Len(w.heap)
    IN [w |-> [w EXCEPT !.heap = @ \o [c \in 1..n |-> SplitImage(img, id, c, kind)]],
        arr |-> [c \in 1..n |-> first + c]]

\* IJ.run(imp, "8-bit" | "16-bit", "")
ConvertDepth(w, id, depth) == [w EXCEPT !.heap[id].bitDepth = depth, !.heap[id].changes = TRUE]

\* if (imp.getBitDepth() != 16) IJ.run(imp, "16-bit", "") for every split image
RECURSIVE ConvertEachTo16(_, _)
ConvertEachTo16(w, ids) ==
    IF ids = <<>> THEN w
    ELSE ConvertEachTo16(
             IF w.heap[Head(ids)].bitDepth # 16 THEN ConvertDepth(w, Head(ids), 16) ELSE w,
             Tail(ids))

\* IJ.run(imp, "Invert", ...)
Invert(w, id) == [w EXCEPT !.heap[id].inverted = ~@, !.heap[id].changes = TRUE]


RECURSIVE SeqSum(_)
SeqSum(s) == IF s = <<>> THEN 0 ELSE Head(s) + SeqSum(Tail(s))

RECURSIVE SeqMax(_)
SeqMax(s) ==
    IF Len(s) = 1 THEN Head(s)
    ELSE LET m == SeqMax(Tail(s)) IN IF Head(s) > m THEN Head(s) ELSE m

\* ------------------------------------------------- (2) duplicateSplitInvert
\* The "Duplicate..." of originalImage: all frames at the current Z when useFrames is
\* set and the image has frames, the current plane otherwise.
DuplicateOriginal(w, useFrames, title, kind) ==
    LET orig == w.heap[w.orig]
    IN IF useFrames /\ orig.nFrames > 1
       THEN IF orig.nSlices > 1
            THEN Duplicate(w, w.orig, TRUE, CurrentZ(orig), title, kind)
            ELSE Duplicate(w, w.orig, TRUE, 1, title, kind)
       ELSE Duplicate(w, w.orig, FALSE, 0, title, kind)

\* Faulty variant: the full-stack reference is stored in both branches.
ExtractChannel_AlwaysFull(w, id, i, titleBase, full) ==
    [Show([Invert(ConvertDepth(w, id, 8), id) EXCEPT
              !.heap[id].title = <<"C", ToString(i), "-TempForMerge_">> \o titleBase], id)
        EXCEPT !.sic[i] = id, !.sicFull[i] = id]

\* Loop body: 8-bit, Grays, Invert, setTitle, show, store in the Channel Set.
\* full: the time-stack branch, which also stores the full-stack reference.
ExtractChannel(w, id, i, titleBase, full) ==
    [Show([Invert(ConvertDepth(w, id, 8), id) EXCEPT
              !.heap[id].title = <<"C", ToString(i), "-TempForMerge_">> \o titleBase], id)
        EXCEPT !.sic[i] = id, !.sicFull[i] = IF full THEN id ELSE null]

\* for (var i = 0; i < splitArr.length && i < 4; i++) { ... }
RECURSIVE ExtractChannels(_, _, _, _, _)
ExtractChannels(w, arr, i, titleBase, full) ==
    IF i > Len(arr) \/ i > NumChannelSlots THEN w
    ELSE ExtractChannels(ExtractChannel(w, arr[i], i, titleBase, full), arr, i + 1,
                         titleBase, full)

\* Faulty variant: the entries beyond the split array keep what they held.
NullTrailing_KeepsOld(w, n) == w

\* for (var k = splitArr.length; k < 4; k++) { both entries = null }
NullTrailing(w, n) ==
    [w EXCEPT !.sic = [k \in 1..NumChannelSlots |-> IF k > n THEN null ELSE @[k]],
              !.sicFull = [k \in 1..NumChannelSlots |-> IF k > n THEN null ELSE @[k]]]

\* IJ.selectWindow(originalImage.getTitle()); originalImage.show();
ReturnToOriginal(w) == Show(SelectWindow(w, w.heap[w.orig].title), w.orig)

\* From the split on: sp is ChannelSplitter.split(duplicatedCroppedImage).
ExtractSplit(sp, full) ==
    ReturnToOriginal(
        NullTrailing(
            ExtractChannels(sp.w, sp.arr, 1,
                            IF full THEN sp.w.heap[sp.w.orig].title
                            ELSE sp.w.heap[sp.w.dupc].title,
                            full),
            Len(sp.arr)))

\* From duplicatedCroppedImage = IJ.getImage() on: w is the state after the duplicate.
ExtractDuplicate(w, useFrames) ==
    ExtractSplit(ChannelSplit([w EXCEPT !.dupc = w.cur], w.cur, "split"),
                 useFrames /\ w.heap[w.cur].nFrames > 1)

\* Faulty variant: without a source image the Channel Set is emptied.
DuplicateSplitInvert_EmptiesSet(w, useFrames) ==
    IF w.cur = null THEN ShowMessage(NullTrailing([w EXCEPT !.orig = null], 0), "Error")
    ELSE ExtractDuplicate(
             DuplicateOriginal([w EXCEPT !.orig = w.cur], useFrames,
                               DuplicateTitle(w.heap[w.cur].title), "dup"),
             useFrames)

\* IJ.getImage() yields null when no image is open; the only "Error" box of this
\* function is "No image is open!".
DuplicateSplitInvert(w, useFrames) ==
    IF w.cur = null THEN ShowMessage([w EXCEPT !.orig = null], "Error")
    ELSE ExtractDuplicate(
             DuplicateOriginal([w EXCEPT !.orig = w.cur], useFrames,
                               DuplicateTitle(w.heap[w.cur].title), "dup"),
             useFrames)

\* ------------------------------------------------------ (3) createMergeOnly
\* The steps of createMergeOnly at which a host call may throw.
FailSteps ==
    {"duplicate", "split", "convert", "merge", "rgb", "calibration", "show", "cleanup"}

\* Result of one createMergeOnly call.
\*   how     "image" (return merged), "null" (return null), "undefined" (falls off the end),
\*           "caught" (return null from the catch block)
\*   temps   localDup and the split images, as far as they were created
\*   merged  the composite, as far as it was created
\*   picked  the source channels handed to mergeChannels
\*   path    "multi" (time-stack branch), "single", or "none" (before the branch)
MergeResult(w, ret, how, temps, merged, picked, path) ==
    [w |-> w, ret |-> ret, how |-> how, temps |-> temps, merged |-> merged,
     picked |-> picked, path |-> path]

\* catch (error) { return null; }
Caught(w, temps, merged, picked, path) ==
    MergeResult(w, null, "caught", temps, merged, picked, path)

\* Faulty variant: the checkboxes are not consulted.
ToMerge_AllChannels(checkboxes, arr, j) == SubSeq(arr, j, Len(arr))

\* Faulty variant: the selected channels are collected last to first.
RECURSIVE ToMerge_Descending(_, _, _)
ToMerge_Descending(checkboxes, arr, j) ==
    IF j > Len(checkboxes) THEN <<>>
    ELSE ToMerge_Descending(checkboxes, arr, j + 1)
         \o (IF checkboxes[j] /\ j <= Len(arr) THEN <<arr[j]>> ELSE <<>>)

\* toMerge: checkbox j set, j within the split array.
RECURSIVE ToMerge(_, _, _)
ToMerge(checkboxes, arr, j) ==
    IF j > Len(checkboxes) THEN <<>>
    ELSE (IF checkboxes[j] /\ j <= Len(arr) THEN <<arr[j]>> ELSE <<>>)
         \o ToMerge(checkboxes, arr, j + 1)

RECURSIVE JoinTitles(_, _)
JoinTitles(h, ids) ==
    IF ids = <<>> THEN <<>>
    ELSE h[Head(ids)].title \o (IF Len(ids) > 1 THEN <<"_">> ELSE <<>>) \o JoinTitles(h, Tail(ids))

RECURSIVE JoinChans(_, _)
JoinChans(h, ids) ==
    IF ids = <<>> THEN <<>> ELSE h[Head(ids)].chans \o JoinChans(h, Tail(ids))

\* RGBStackMerge.mergeChannels(toMerge, false): a new composite, not shown.  Whether
\* the host hands the inputs' calibration on is the host's business (keepsCal).
MergeChannels(w, toMerge, keepsCal) ==
    LET first == w.heap[toMerge[1]]
    IN NewImage(w, [first EXCEPT
                       !.kind = "merged", !.title = <<"Composite">>, !.from = first.from,
                       !.nChannels = Len(toMerge), !.slice = 1,
                       !.chans = JoinChans(w.heap, toMerge),
                       !.cal = IF keepsCal THEN first.cal ELSE DefaultCal,
                       !.open = TRUE, !.visible = FALSE, !.changes = FALSE])

\* Faulty variant: the composite is left as mergeChannels made it.
ToRGB_Skipped(w, id) == w

\* IJ.run(merged, "RGB Color", "")
ToRGB(w, id) == [w EXCEPT !.heap[id].bitDepth = 24, !.heap[id].nChannels = 1]

\* imp.setTitle(title)
SetTitle(w, id, title) == [w EXCEPT !.heap[id].title = title]

\* Faulty variant: the unit is not copied.
CopyCalibration_NoUnit(w, id, cal, temporal) ==
    [w EXCEPT !.heap[id].cal =
        [@ EXCEPT !.pixelWidth = cal.pixelWidth,
                  !.pixelHeight = cal.pixelHeight,
                  !.frameInterval = IF temporal THEN cal.frameInterval ELSE @,
                  !.fps = IF temporal THEN cal.fps ELSE @]]

\* mergedCal.pixelWidth / pixelHeight / unit = cal.*; with temporal also frameInterval, fps
CopyCalibration(w, id, cal, temporal) ==
    [w EXCEPT !.heap[id].cal =
        [@ EXCEPT !.pixelWidth = cal.pixelWidth,
                  !.pixelHeight = cal.pixelHeight,
                  !.unit = cal.unit,
                  !.frameInterval = IF temporal THEN cal.frameInterval ELSE @,
                  !.fps = IF temporal THEN cal.fps ELSE @]]

\* Faulty variant: the composite is shown whatever the flag says.
ShowOrHide_AlwaysShown(w, id, showImage) == Show(w, id)

\* if (showImage) merged.show(); else merged.hide();
ShowOrHide(w, id, showImage) == IF showImage THEN Show(w, id) ELSE Hide(w, id)

\* The clean-up and "return merged": the composite is the newest image of w.
\* Time stack: changes = false; close() image by image.  Single frame: all marked, then
\* all closed.
MergeCleanup(w, temps, picked, host, path) ==
    IF host.failAt = "cleanup" THEN Caught(w, temps, Len(w.heap), picked, path)
    ELSE MergeResult(IF path = "multi" THEN MarkAndCloseEach(w, temps)
                     ELSE CloseEach(MarkEachUnchanged(w, temps), temps),
                     Len(w.heap), "image", temps, Len(w.heap), picked, path)

\* show() / hide() of the composite, then the clean-up.
MergeShow(w, temps, picked, showImage, host, path) ==
    IF host.failAt = "show" THEN Caught(w, temps, Len(w.heap), picked, path)
    ELSE MergeCleanup(ShowOrHide(w, Len(w.heap), showImage), temps, picked, host, path)

\* Faulty variant: all five fields are copied in both branches.
MergeCalibrate_AllFields(w, temps, picked, showImage, host, path) ==
    IF host.failAt = "calibration" THEN Caught(w, temps, Len(w.heap), picked, path)
    ELSE MergeShow(
             [CopyCalibration(w, Len(w.heap), w.heap[w.orig].cal, TRUE)
                 EXCEPT !.heap[Len(w.heap)].slice = IF path = "multi" THEN 1 ELSE @],
             temps, picked, showImage, host, path)

\* The calibration copy: three fields in the single-frame branch; five fields and
\* setSlice(1) in the time-stack branch.
MergeCalibrate(w, temps, picked, showImage, host, path) ==
    IF host.failAt = "calibration" THEN Caught(w, temps, Len(w.heap), picked, path)
    ELSE MergeShow(
             [CopyCalibration(w, Len(w.heap), w.heap[w.orig].cal, path = "multi")
                 EXCEPT !.heap[Len(w.heap)].slice = IF path = "multi" THEN 1 ELSE @],
             temps, picked, showImage, host, path)

\* "RGB Color" and setTitle on the composite mergeChannels returned (the newest image).
MergeColor(w, temps, picked, title, showImage, host, path) ==
    IF host.failAt = "rgb" THEN Caught(w, temps, Len(w.heap), picked, path)
    ELSE MergeCalibrate(SetTitle(ToRGB(w, Len(w.heap)), Len(w.heap), title),
                        temps, picked, showImage, host, path)

\* The time-stack branch after the 16-bit conversion of the split stacks.
TimeStackConverted(w, temps, toMerge, showImage, uniqueTitle, host) ==
    IF Len(toMerge) > 0
    THEN IF host.failAt = "merge"
         THEN Caught(w, temps, null, JoinChans(w.heap, toMerge), "multi")
         ELSE MergeColor(MergeChannels(w, toMerge, host.keepsCal), temps,
                         JoinChans(w.heap, toMerge),
                         <<"Merged_TimeStack_">> \o uniqueTitle, showImage, host, "multi")
    ELSE MergeResult(w, null, "undefined", temps, null, <<>>, "multi")

\* The time-stack branch after ChannelSplitter.split(localDup).
TimeStackSplit(sp, localDup, showImage, checkboxes, uniqueTitle, host) ==
    IF host.failAt = "convert"
    THEN Caught(sp.w, <<localDup>> \o sp.arr, null, <<>>, "multi")
    ELSE TimeStackConverted(ConvertEachTo16(sp.w, sp.arr), <<localDup>> \o sp.arr,
                            ToMerge(checkboxes, sp.arr, 1), showImage, uniqueTitle, host)

MergeTimeStack(w, localDup, showImage, checkboxes, uniqueTitle, host) ==
    IF host.failAt = "split" THEN Caught(w, <<localDup>>, null, <<>>, "multi")
    ELSE TimeStackSplit(ChannelSplit(w, localDup, "mergeSplit"), localDup, showImage,
                        checkboxes, uniqueTitle, host)

\* The single-frame branch after the 16-bit conversion of the split images.
SingleFrameConverted(w, temps, toMerge, showImage, host) ==
    IF Len(toMerge) = 0
    THEN IF host.failAt = "cleanup" THEN Caught(w, temps, null, <<>>, "single")
         ELSE MergeResult(MarkAndCloseEach(w, temps), null, "null", temps, null, <<>>,
                          "single")
    ELSE IF host.failAt = "merge"
    THEN Caught(w, temps, null, JoinChans(w.heap, toMerge), "single")
    ELSE MergeColor(MergeChannels(w, toMerge, host.keepsCal), temps,
                    JoinChans(w.heap, toMerge),
                    <<"Merged_">> \o JoinTitles(w.heap, toMerge), showImage, host, "single")

\* The single-frame branch after ChannelSplitter.split(localDup).
SingleFrameSplit(sp, localDup, showImage, checkboxes, host) ==
    IF Len(sp.arr) < 1
    THEN MergeResult(ShowMessage(sp.w, "Error"), null, "null", <<localDup>> \o sp.arr,
                     null, <<>>, "single")
    ELSE IF host.failAt = "convert"
    THEN Caught(sp.w, <<localDup>> \o sp.arr, null, <<>>, "single")
    ELSE SingleFrameConverted(ConvertEachTo16(sp.w, sp.arr), <<localDup>> \o sp.arr,
                              ToMerge(checkboxes, sp.arr, 1), showImage, host)

MergeSingleFrame(w, localDup, showImage, checkboxes, host) ==
    IF host.failAt = "split" THEN Caught(w, <<localDup>>, null, <<>>, "single")
    ELSE SingleFrameSplit(ChannelSplit(w, localDup, "mergeSplit"), localDup, showImage,
                          checkboxes, host)

\* "C" + "TempForMerge_" + mergeCount
UniqueTitle(n) == <<"CTempForMerge_", ToString(n)>>

\* From localDup = IJ.getImage() on: w is the state after the duplicate.
MergeDuplicate(w, showImage, checkboxes, useFrames, uniqueTitle, host) ==
    IF useFrames /\ w.heap[w.cur].nFrames > 1
    THEN MergeTimeStack(w, w.cur, showImage, checkboxes, uniqueTitle, host)
    ELSE MergeSingleFrame(w, w.cur, showImage, checkboxes, host)

CreateMergeOnly(w, showImage, checkboxes, useFrames, host) ==
    IF w.orig = null
    THEN MergeResult(ShowMessage(w, "Error"), null, "null", <<>>, null, <<>>, "none")
    ELSE IF host.failAt = "duplicate"
    THEN Caught([w EXCEPT !.mergeCount = @ + 1], <<>>, null, <<>>, "none")
    ELSE MergeDuplicate(
             DuplicateOriginal([w EXCEPT !.mergeCount = @ + 1], useFrames,
                               UniqueTitle(w.mergeCount), "mergeDup"),
             showImage, checkboxes, useFrames, UniqueTitle(w.mergeCount), host)

\* --------------------------------------------- (6) stackImagesHorizontally
\* for (i...) { nF = images[i].getNFrames(); if (nF > 1) hasTimeFrames = true; }
HasTimeFrames(w, images) == \E i \in 1..Len(images) : w.heap[images[i]].nFrames > 1

\* maxFrames starts at 1 and is raised by every input with more frames.
RECURSIVE StackMaxFrames(_, _, _)
StackMaxFrames(w, images, i) ==
    IF i = 0 THEN 1
    ELSE LET m == StackMaxFrames(w, images, i - 1)
             nF == w.heap[images[i]].nFrames
         IN IF nF > 1 /\ nF > m THEN nF ELSE m

\* Faulty variant: a grid of equal cells, as wide as the widest input.
StackWidth_Widest(w, images) ==
    Len(images) * SeqMax([i \in 1..Len(images) |-> w.heap[images[i]].width])

\* images.reduce(function(sum, img) { return sum + img.getWidth(); }, 0)
StackWidth(w, images) == SeqSum([i \in 1..Len(images) |-> w.heap[images[i]].width])

\* Math.max.apply(null, images.map(function(img) { return img.getHeight(); }))
StackHeight(w, images) == SeqMax([i \in 1..Len(images) |-> w.heap[images[i]].height])

AnyRGB(w, images) == \E i \in 1..Len(images) : w.heap[images[i]].bitDepth = 24

\* The "RGB" / "16-bit black" / "8-bit black" choice of the canvas.
StackBitDepth(w, images) ==
    IF AnyRGB(w, images) THEN 24
    ELSE IF w.heap[images[1]].bitDepth = 16 THEN 16 ELSE 8

\* Faulty variant: the offset advances by the width of the input being inserted.
XOffset_OwnWidth(w, images, i) == (i - 1) * w.heap[images[i]].width

\* xOffset when input i is inserted: 0, then += img.getWidth() after each insert.
RECURSIVE XOffset(_, _, _)
XOffset(w, images, i) ==
    IF i = 1 THEN 0
    ELSE XOffset(w, images, i - 1) + w.heap[images[i - 1]].width

\* Faulty variant: an input that has run out of frames starts over at its first frame.
SelectedFrame_FirstFrame(img, f, multi) ==
    IF ~multi THEN img.slice
    ELSE IF img.nFrames >= f THEN f
    ELSE 1

\* The frame of img whose processor is taken for output frame f.
SelectedFrame(img, f, multi) ==
    IF ~multi THEN img.slice
    ELSE IF img.nFrames >= f THEN f
    ELSE IF img.nFrames > 0 THEN img.nFrames
    ELSE img.slice

\* if (anyRGB && img.getBitDepth() != 24) proc = proc.convertToRGB();
ProcBitDepth(img, anyRGB) == IF anyRGB /\ img.bitDepth # 24 THEN 24 ELSE img.bitDepth

\* ip.insert(proc, xOffset, 0) for every input, for output frame f.
FrameBlocks(w, images, f, multi) ==
    [i \in 1..Len(images) |->
        LET img == w.heap[images[i]]
        IN [img |-> images[i], frame |-> SelectedFrame(img, f, multi),
            x |-> XOffset(w, images, i), y |-> 0,
            w |-> img.width, h |-> img.height,
            bitDepth |-> ProcBitDepth(img, AnyRGB(w, images))]]

\* Faulty variant: the calibration is taken from the last input.
StackCal_FromLast(w, images) ==
    LET cal == w.heap[images[Len(images)]].cal
    IN [DefaultCal EXCEPT
           !.pixelWidth = cal.pixelWidth,
           !.pixelHeight = cal.pixelHeight,
           !.unit = cal.unit,
           !.frameInterval = IF HasTimeFrames(w, images) THEN cal.frameInterval ELSE @,
           !.fps = IF HasTimeFrames(w, images) THEN cal.fps ELSE @]

\* stackCal.* = cal.* from images[0]; the temporal fields only if hasTimeFrames.
StackCal(w, images) ==
    LET cal == w.heap[images[1]].cal
    IN [DefaultCal EXCEPT
           !.pixelWidth = cal.pixelWidth,
           !.pixelHeight = cal.pixelHeight,
           !.unit = cal.unit,
           !.frameInterval = IF HasTimeFrames(w, images) THEN cal.frameInterval ELSE @,
           !.fps = IF HasTimeFrames(w, images) THEN cal.fps ELSE @]

\* img.setSlice(..) in the frame loop leaves every input on the frame last selected.
StackInputsAfter(w, images, multi, maxFrames) ==
    [id \in 1..Len(w.heap) |->
        IF multi /\ (\E i \in 1..Len(images) : images[i] = id)
        THEN [w.heap[id] EXCEPT !.slice = SelectedFrame(w.heap[id], maxFrames, TRUE)]
        ELSE w.heap[id]]

\* stack.show(); return stack;  (the montage is the newest image of w)
ShownStack(w) == [w |-> Show(w, Len(w.heap)), ret |-> Len(w.heap)]

\* The function after its length check: canvas, inserts, calibration, show.
Montage(w, images) ==
    LET multi == HasTimeFrames(w, images)
        maxFrames == StackMaxFrames(w, images, Len(images))
        nOut == IF multi THEN maxFrames ELSE 1
    IN ShownStack(
           NewImage(
               [w EXCEPT !.heap = StackInputsAfter(w, images, multi, maxFrames)],
               [BlankImage EXCEPT
                   !.kind = "stacked", !.title = <<"Stacked">>,
                   !.width = StackWidth(w, images),
                   !.height = StackHeight(w, images),
                   !.bitDepth = StackBitDepth(w, images),
                   !.nFrames = nOut, !.slice = nOut,
                   !.cal = StackCal(w, images),
                   !.chans = <<>>,
                   !.blocks = [f \in 1..nOut |-> FrameBlocks(w, images, f, multi)]]))

\* Faulty variant: one input is accepted.
StackImagesHorizontally_OneIsEnough(w, images) ==
    IF Len(images) < 1
    THEN [w |-> ShowMessage(w, "Stacking Error"), ret |-> null]
    ELSE Montage(w, images)

StackImagesHorizontally(w, images) ==
    IF Len(images) < 2
    THEN [w |-> ShowMessage(w, "Stacking Error"), ret |-> null]
    ELSE Montage(w, images)

\* ------------------------------------------- (4) getChannelImage16OnTheFly
\* The characters of the identifiers the Provider is asked for.
Chars ==
    [s \in {"None", "Ch1", "Ch2", "Ch3", "Ch4", "Merge", "Ch0", "Ch5", "Chx", "ch1", "Ch",
            "Ch01", "Ch1x", "Ch 2", "Ch+3", "Ch-1", "Ch4.5", "Ch10"} |->
        CASE s = "None" -> <<"N", "o", "n", "e">>
          [] s = "Ch1" -> <<"C", "h", "1">>
          [] s = "Ch2" -> <<"C", "h", "2">>
          [] s = "Ch3" -> <<"C", "h", "3">>
          [] s = "Ch4" -> <<"C", "h", "4">>
          [] s = "Merge" -> <<"M", "e", "r", "g", "e">>
          [] s = "Ch0" -> <<"C", "h", "0">>
          [] s = "Ch5" -> <<"C", "h", "5">>
          [] s = "Chx" -> <<"C", "h", "x">>
          [] s = "ch1" -> <<"c", "h", "1">>
          [] s = "Ch" -> <<"C", "h">>
          [] s = "Ch01" -> <<"C", "h", "0", "1">>
          [] s = "Ch1x" -> <<"C", "h", "1", "x">>
          [] s = "Ch 2" -> <<"C", "h", " ", "2">>
          [] s = "Ch+3" -> <<"C", "h", "+", "3">>
          [] s = "Ch-1" -> <<"C", "h", "-", "1">>
          [] s = "Ch4.5" -> <<"C", "h", "4", ".", "5">>
          [] s = "Ch10" -> <<"C", "h", "1", "0">>]

Identifiers == DOMAIN Chars

\* chStr.startsWith("Ch")
StartsWithCh(cs) == Len(cs) >= 2 /\ cs[1] = "C" /\ cs[2] = "h"

Digits == <<"0", "1", "2", "3", "4", "5", "6", "7", "8", "9">>

IsDigit(c) == \E d \in 1..Len(Digits) : Digits[d] = c

DigitValue(c) == (CHOOSE d \in 1..Len(Digits) : Digits[d] = c) - 1

\* The value of the leading digits of cs.
RECURSIVE ParseDigits(_, _)
ParseDigits(cs, acc) ==
    IF cs = <<>> \/ ~IsDigit(Head(cs)) THEN acc
    ELSE ParseDigits(Tail(cs), 10 * acc + DigitValue(Head(cs)))

RECURSIVE SkipSpaces(_)
SkipSpaces(cs) == IF cs # <<>> /\ Head(cs) = " " THEN SkipSpaces(Tail(cs)) ELSE cs

NaN == [nan |-> TRUE, value |-> 0]

\* The digits of cs after its sign, negated for "-"; NaN if there is no digit.
SignedDigits(cs, digits) ==
    IF digits = <<>> \/ ~IsDigit(Head(digits)) THEN NaN
    ELSE [nan |-> FALSE,
          value |-> IF Head(cs) = "-" THEN 0 - ParseDigits(digits, 0)
                    ELSE ParseDigits(digits, 0)]

\* The text after leading white space: an optional sign, then digits.
ParseTrimmed(cs) ==
    IF cs = <<>> THEN NaN
    ELSE SignedDigits(cs, IF Head(cs) \in {"+", "-"} THEN Tail(cs) ELSE cs)

\* parseInt(s, 10): leading white space is skipped, then an optional sign and the
\* longest run of decimal digits are read; what follows them is ignored.
ParseInt(cs) == ParseTrimmed(SkipSpaces(cs))

\* The Channel Set index (1-based here) the identifier resolves to, 0 if none.
ChannelSlot(chStr) ==
    LET cs == Chars[chStr]
    IN IF ~StartsWithCh(cs) THEN 0
       ELSE LET n == ParseInt(SubSeq(cs, 3, Len(cs)))
                idx == n.value - 1
            IN IF n.nan \/ idx < 0 \/ idx >= NumChannelSlots THEN 0 ELSE idx + 1

\* Result: ret the hidden duplicate or null; threw when a host call or a null
\* dereference raised, which nothing in the function catches.
ProviderResult(w, ret, threw) == [w |-> w, ret |-> ret, threw |-> threw]

\* Faulty variant: the duplicate keeps its depth.
To16_KeepsDepth(w, id) == w

\* if (dup.getBitDepth() != 16) IJ.run(dup, "16-bit", "")
To16(w, id) == IF w.heap[id].bitDepth # 16 THEN ConvertDepth(w, id, 16) ELSE w

\* From dup = IJ.getImage() on: w is the state after the duplicate, title is
\* visImp.getTitle().  originalImage.getCalibration() throws on a null originalImage.
ProvideDuplicate(w, title) ==
    IF w.orig = null
    THEN ProviderResult(SetTitle(To16(w, w.cur), w.cur, <<"16bit_">> \o title), null, TRUE)
    ELSE ProviderResult(
             Hide(CopyCalibration(SetTitle(To16(w, w.cur), w.cur, <<"16bit_">> \o title),
                                  w.cur, w.heap[w.orig].cal, w.heap[w.cur].nFrames > 1),
                  w.cur),
             w.cur, FALSE)

\* Both "Duplicate..." calls copy the whole stack of visImp; on an image that has been
\* closed the command throws.
GetChannelImage16OnTheFly(w, chStr, useFrames) ==
    LET slot == ChannelSlot(chStr)
    IN IF slot = 0 THEN ProviderResult(w, null, FALSE)
       ELSE IF w.sic[slot] = null THEN ProviderResult(w, null, FALSE)
       ELSE IF ~w.heap[w.sic[slot]].open
       THEN ProviderResult(SelectWindow(w, w.heap[w.sic[slot]].title), null, TRUE)
       ELSE ProvideDuplicate(
                Duplicate(SelectWindow(w, w.heap[w.sic[slot]].title), w.sic[slot], TRUE,
                          w.heap[w.sic[slot]].zsel,
                          DuplicateTitle(w.heap[w.sic[slot]].title), "dup16"),
                w.heap[w.sic[slot]].title)

\* ------------------------------------------------- (5) alignSelectedImages
\* Faulty variant: the composite is put in front of the images gathered so far.
GatheredMerge_InFront(images, r) ==
    [w |-> r.w, images |-> IF r.ret # null THEN <<r.ret>> \o images ELSE images,
     threw |-> FALSE]

\* imagesToAlign after a "Merge" selection: r is what createMergeOnly(false) returned.
GatheredMerge(images, r) ==
    [w |-> r.w, images |-> IF r.ret # null THEN Append(images, r.ret) ELSE images,
     threw |-> FALSE]

\* imagesToAlign after a channel selection: r is what the Provider returned or raised.
GatheredChannel(images, r) ==
    [w |-> r.w, images |-> IF r.ret # null THEN Append(images, r.ret) ELSE images,
     threw |-> r.threw]

\* One turn of the gathering loop; g is its state before the turn.  An exception the
\* Provider raises ends the handler.
GatherStep(g, selection, checkboxes, useFrames, host) ==
    IF g.threw \/ selection = "None" THEN g
    ELSE IF selection = "Merge"
    THEN GatheredMerge(g.images, CreateMergeOnly(g.w, FALSE, checkboxes, useFrames, host))
    ELSE GatheredChannel(g.images, GetChannelImage16OnTheFly(g.w, selection, useFrames))

\* The gathering loop over the first n alignment choices.
RECURSIVE GatherImages(_, _, _, _, _, _)
GatherImages(w, choices, n, checkboxes, useFrames, host) ==
    IF n = 0 THEN [w |-> w, images |-> <<>>, threw |-> FALSE]
    ELSE GatherStep(GatherImages(w, choices, n - 1, checkboxes, useFrames, host),
                    choices[n], checkboxes, useFrames, host)

\* finalAlignedImage = stackImagesHorizontally(imagesToAlign); IJ.selectWindow(...)
AlignStacked(r, images) ==
    [w |-> SelectWindow([r.w EXCEPT !.final = r.ret], r.w.heap[r.ret].title),
     images |-> images, ret |-> r.ret, threw |-> FALSE]

\* After the gathering loop.
AlignGathered(g) ==
    IF g.threw THEN [w |-> g.w, images |-> g.images, ret |-> null, threw |-> TRUE]
    ELSE IF Len(g.images) < 2
    THEN [w |-> ShowMessage(g.w, "Stacking Error"), images |-> g.images, ret |-> null,
          threw |-> FALSE]
    ELSE AlignStacked(StackImagesHorizontally(g.w, g.images), g.images)

AlignSelectedImages(w, choices, checkboxes, useFrames, host) ==
    AlignGathered(GatherImages(w, choices, Len(choices), checkboxes, useFrames, host))

\* ------------------------------------------------ (7) closeAllExceptOriginal
\* WindowManager.getImageTitles(): the titles of the image windows, in window order.
RECURSIVE WindowTitles(_, _)
WindowTitles(h, id) ==
    IF id > Len(h) THEN <<>>
    ELSE (IF h[id].visible /\ h[id].open THEN <<h[id].title>> ELSE <<>>)
         \o WindowTitles(h, id + 1)

\* WindowManager.getImage(title): the first window with that title, or null.
GetImageByTitle(w, title) ==
    LET named == {id \in 1..Len(w.heap) :
                     w.heap[id].visible /\ w.heap[id].open /\ w.heap[id].title = title}
    IN IF named = {} THEN null ELSE CHOOSE id \in named : \A o \in named : id <= o

\* Faulty variant: no window is closed.
CloseWindows_NoneClosed(w, windows, keep) == w

RECURSIVE CloseWindows(_, _, _)
CloseWindows(w, windows, keep) ==
    IF windows = <<>> THEN w
    ELSE LET img == GetImageByTitle(w, Head(windows))
         IN CloseWindows(
                IF Head(windows) # keep /\ img # null
                THEN Close(MarkUnchanged(w, img), img) ELSE w,
                Tail(windows), keep)

\* originalImage.show(); IJ.selectWindow(originalImage.getTitle());
ShowOriginal(w) == SelectWindow(Show(w, w.orig), w.heap[w.orig].title)

CloseAllExceptOriginal(w) ==
    IF w.orig = null THEN ShowMessage(w, "Error")
    ELSE ShowOriginal(CloseWindows(w, WindowTitles(w.heap, 1), w.heap[w.orig].title))

\* ------------------------------------------------------------------------
\* Version 1.0 (src/unnamed/part_000), function by function.  It has no "use frames"
\* checkbox and no splitInvertedChannelsFullStack; its functions leave that field of
\* the world as it is.
\* for (var i = 0; i < splitArr.length && i < 4; i++) { 8-bit, Grays, Invert, setTitle,
\* show, splitInvertedChannels[i] = splitArr[i] }
RECURSIVE V1ExtractChannels(_, _, _, _)
V1ExtractChannels(w, arr, i, titleBase) ==
    IF i > Len(arr) \/ i > NumChannelSlots THEN w
    ELSE V1ExtractChannels(
             [Show([Invert(ConvertDepth(w, arr[i], 8), arr[i]) EXCEPT
                       !.heap[arr[i]].title =
                           <<"C", ToString(i), "-TempForMerge_">> \o titleBase], arr[i])
                 EXCEPT !.sic[i] = arr[i]],
             arr, i + 1, titleBase)

\* From the split on: the loop, the trailing entries set to null, the return to the
\* original.
V1ExtractSplit(sp) ==
    ReturnToOriginal(
        [V1ExtractChannels(sp.w, sp.arr, 1, sp.w.heap[sp.w.dupc].title)
            EXCEPT !.sic = [k \in 1..NumChannelSlots |->
                               IF k > Len(sp.arr) THEN null ELSE @[k]]])

V1DuplicateSplitInvert(w) ==
    IF w.cur = null THEN ShowMessage([w EXCEPT !.orig = null], "Error")
    ELSE LET d == Duplicate([w EXCEPT !.orig = w.cur], w.cur, FALSE, 0,
                            DuplicateTitle(w.heap[w.cur].title), "dup")
         IN V1ExtractSplit(ChannelSplit([d EXCEPT !.dupc = d.cur], d.cur, "split"))

\* RGB Color, setTitle, the three calibration fields, show or hide, clean-up, return.
V1MergeFinish(w, temps, picked, title, showImage) ==
    MergeResult(
        CloseEach(
            MarkEachUnchanged(
                ShowOrHide(
                    CopyCalibration(SetTitle(ToRGB(w, Len(w.heap)), Len(w.heap), title),
                                    Len(w.heap), w.heap[w.orig].cal, FALSE),
                    Len(w.heap), showImage),
                temps),
            temps),
        Len(w.heap), "image", temps, Len(w.heap), picked, "single")

\* After the 16-bit conversion of the split images.
V1MergeConverted(w, temps, toMerge, showImage, host) ==
    IF Len(toMerge) = 0
    THEN MergeResult(MarkAndCloseEach(w, temps), null, "null", temps, null, <<>>, "single")
    ELSE V1MergeFinish(MergeChannels(w, toMerge, host.keepsCal), temps,
                       JoinChans(w.heap, toMerge),
                       <<"Merged_">> \o JoinTitles(w.heap, toMerge), showImage)

\* After ChannelSplitter.split(localDup).
V1MergeSplit(sp, localDup, showImage, checkboxes, host) ==
    IF Len(sp.arr) < 1
    THEN MergeResult(ShowMessage(sp.w, "Error"), null, "null", <<localDup>> \o sp.arr,
                     null, <<>>, "single")
    ELSE V1MergeConverted(ConvertEachTo16(sp.w, sp.arr), <<localDup>> \o sp.arr,
                          ToMerge(checkboxes, sp.arr, 1), showImage, host)

V1CreateMergeOnly(w, showImage, checkboxes, host) ==
    IF w.orig = null
    THEN MergeResult(ShowMessage(w, "Error"), null, "null", <<>>, null, <<>>, "none")
    ELSE LET d == Duplicate([w EXCEPT !.mergeCount = @ + 1], w.orig, FALSE, 0,
                            UniqueTitle(w.mergeCount), "mergeDup")
         IN V1MergeSplit(ChannelSplit(d, d.cur, "mergeSplit"), d.cur, showImage,
                         checkboxes, host)

\* From dup = IJ.getImage() on: 16-bit, setTitle, the three calibration fields, hide.
V1ProvideDuplicate(w, title) ==
    IF w.orig = null
    THEN ProviderResult(SetTitle(To16(w, w.cur), w.cur, <<"16bit_">> \o title), null, TRUE)
    ELSE ProviderResult(
             Hide(CopyCalibration(SetTitle(To16(w, w.cur), w.cur, <<"16bit_">> \o title),
                                  w.cur, w.heap[w.orig].cal, FALSE),
                  w.cur),
             w.cur, FALSE)

V1GetChannelImage16OnTheFly(w, chStr) ==
    LET slot == ChannelSlot(chStr)
    IN IF slot = 0 THEN ProviderResult(w, null, FALSE)
       ELSE IF w.sic[slot] = null THEN ProviderResult(w, null, FALSE)
       ELSE IF ~w.heap[w.sic[slot]].open
       THEN ProviderResult(SelectWindow(w, w.heap[w.sic[slot]].title), null, TRUE)
       ELSE V1ProvideDuplicate(
                Duplicate(SelectWindow(w, w.heap[w.sic[slot]].title), w.sic[slot], TRUE,
                          w.heap[w.sic[slot]].zsel,
                          DuplicateTitle(w.heap[w.sic[slot]].title), "dup16"),
                w.heap[w.sic[slot]].title)

\* One canvas; every input's current processor inserted at its offset; pixel width,
\* pixel height and unit from images[0]; show.
V1StackImagesHorizontally(w, images) ==
    IF Len(images) < 2
    THEN [w |-> ShowMessage(w, "Stacking Error"), ret |-> null]
    ELSE ShownStack(
             NewImage(w,
                 [BlankImage EXCEPT
                     !.kind = "stacked", !.title = <<"Stacked">>,
                     !.width = StackWidth(w, images),
                     !.height = StackHeight(w, images),
                     !.bitDepth = StackBitDepth(w, images),
                     !.nFrames = 1, !.slice = 1,
                     !.cal = [DefaultCal EXCEPT
                                 !.pixelWidth = w.heap[images[1]].cal.pixelWidth,
                                 !.pixelHeight = w.heap[images[1]].cal.pixelHeight,
                                 !.unit = w.heap[images[1]].cal.unit],
                     !.chans = <<>>,
                     !.blocks = <<FrameBlocks(w, images, 1, FALSE)>>]))

V1GatherStep(g, selection, checkboxes, host) ==
    IF g.threw \/ selection = "None" THEN g
    ELSE IF selection = "Merge"
    THEN GatheredMerge(g.images, V1CreateMergeOnly(g.w, FALSE, checkboxes, host))
    ELSE GatheredChannel(g.images, V1GetChannelImage16OnTheFly(g.w, selection))

RECURSIVE V1GatherImages(_, _, _, _, _)
V1GatherImages(w, choices, n, checkboxes, host) ==
    IF n = 0 THEN [w |-> w, images |-> <<>>, threw |-> FALSE]
    ELSE V1GatherStep(V1GatherImages(w, choices, n - 1, checkboxes, host),
                      choices[n], checkboxes, host)

V1AlignGathered(g) ==
    IF g.threw THEN [w |-> g.w, images |-> g.images, ret |-> null, threw |-> TRUE]
    ELSE IF Len(g.images) < 2
    THEN [w |-> ShowMessage(g.w, "Stacking Error"), images |-> g.images, ret |-> null,
          threw |-> FALSE]
    ELSE AlignStacked(V1StackImagesHorizontally(g.w, g.images), g.images)

V1AlignSelectedImages(w, choices, checkboxes, host) ==
    V1AlignGathered(V1GatherImages(w, choices, Len(choices), checkboxes, host))

V1CloseAllExceptOriginal(w) ==
    IF w.orig = null THEN ShowMessage(w, "Error")
    ELSE ShowOriginal(CloseWindows(w, WindowTitles(w.heap, 1), w.heap[w.orig].title))

\* ------------------------------------------------------------------------
\* The Montage Assembler on its own: any list of up to MaxInputs open images.
\* (the two heights come from two acquisitions, each with its own calibration)
InputImages ==
    {[BlankImage EXCEPT !.kind = "input", !.width = wd, !.height = ht, !.bitDepth = bd,
                        !.nFrames = nF,
                        !.cal = IF ht = 256 THEN AcquiredCal ELSE OtherCal]
        : wd \in Widths, ht \in Heights, bd \in BitDepths, nF \in 1..MaxFrames}

InputLists == UNION {[1..n -> InputImages] : n \in 0..MaxInputs}

NoCall == [op |-> "none"]

StackInit ==
    /\ heap \in InputLists
    /\ currentImage = null
    /\ originalImage = null
    /\ duplicatedCroppedImage = null
    /\ splitInvertedChannels = [i \in 1..NumChannelSlots |-> null]
    /\ splitInvertedChannelsFullStack = [i \in 1..NumChannelSlots |-> null]
    /\ finalAlignedImage = null
    /\ mergeCount = InitialMergeCount
    /\ messages = <<>>
    /\ last = NoCall
    /\ steps = 0

StackCall ==
    /\ last.op = "none"
    /\ \E r \in {StackImagesHorizontally(World, [i \in 1..Len(heap) |-> i])} :
          /\ Install(r.w)
          /\ last' = [op |-> "stack", nBefore |-> Len(heap),
                      images |-> [i \in 1..Len(heap) |-> i], ret |-> r.ret]
          /\ UNCHANGED steps

StackNext == StackCall

SpecStack == StackInit /\ [][StackNext]_vars

\* ------------------------------------------------------------------------
\* The dialog (13): one action per button.  The widgets expose only their current
\* state, which the user may change between two presses, so each press draws it.
\* last keeps the widget states a handler read, and defaults for those it did not.
MaxSelected == 2

CheckboxStates == [1..NumChannelSlots -> BOOLEAN]

Unchecked == [i \in 1..NumChannelSlots |-> FALSE]

\* Merge checkboxes in the whole dialog: none, or Ch1 and Ch2.
AlignCheckboxStates ==
    {Unchecked, [i \in 1..NumChannelSlots |-> i <= 2]}

NoFailure == "none"

\* What the host does during one handler: whether mergeChannels hands the calibration
\* on, and the step of createMergeOnly that throws, if any.
CalmHost == [failAt : {NoFailure}, keepsCal : BOOLEAN]

HostBehaviours == CalmHost \cup [failAt : FailSteps, keepsCal : {TRUE}]

QuietHost == [failAt |-> NoFailure, keepsCal |-> TRUE]

ChannelOptions == {baseChannelOptions[k] : k \in 1..Len(baseChannelOptions)}

\* The entries picked in the drop-downs: the first two channels, the last one, the merge.
PickedOptions == ChannelOptions \ {"None", "Ch3"}

\* The five drop-downs: the first n (at most MaxSelected) set, the others on "None".
ChoiceVectors ==
    UNION {{[i \in 1..NumAlignmentChoices |-> IF i <= n THEN s[i] ELSE "None"]
               : s \in [1..n -> PickedOptions]}
           : n \in 0..MaxSelected}

HasMerge(choices) == \E i \in DOMAIN choices : choices[i] = "Merge"

\* The image the user has just opened when the plugin starts: d = <<channels, slices,
\* frames, plane shown>>.
SourceImage(d) ==
    [BlankImage EXCEPT
        !.width = 100, !.height = 256, !.bitDepth = 8, !.cal = AcquiredCal,
        !.nChannels = d[1], !.nSlices = d[2], !.nFrames = d[3], !.slice = d[4],
        !.chans = [k \in 1..d[1] |-> k], !.visible = TRUE]

\* Single-plane-per-frame acquisitions, first plane shown.
SourceShapes == (1..NumChannelSlots) \X {1} \X (1..MaxSrcFrames) \X {1}

Started(sources) ==
    /\ heap \in {<<SourceImage(d)>> : d \in sources}
    /\ currentImage = 1
    /\ originalImage = null
    /\ duplicatedCroppedImage = null
    /\ splitInvertedChannels = [i \in 1..NumChannelSlots |-> null]
    /\ splitInvertedChannelsFullStack = [i \in 1..NumChannelSlots |-> null]
    /\ finalAlignedImage = null
    /\ mergeCount = InitialMergeCount
    /\ messages = <<>>
    /\ last = NoCall
    /\ steps = 0

Init == Started(SourceShapes)

\* steps counts the presses that created or closed an image or advanced mergeCount.
Pressed(w) ==
    steps' = IF w.heap = heap /\ w.mergeCount = mergeCount THEN steps ELSE steps + 1

\* "Dup / Split / Invert"
Extract ==
    /\ steps < MaxOps
    /\ \E useFrames \in BOOLEAN :
          \E w \in {DuplicateSplitInvert(World, useFrames)} :
             /\ Install(w)
             /\ Pressed(w)
             /\ last' = [op |-> "extract", nBefore |-> Len(heap),
                         useFrames |-> (currentImage # null /\ useFrames)]

\* One call of createMergeOnly(showImage) with the widgets in any of the given states.
MergeCall(showImage, boxes, hosts) ==
    \E checkboxes \in boxes, useFrames \in BOOLEAN, host \in hosts :
        \E r \in {CreateMergeOnly(World, showImage, checkboxes, useFrames, host)} :
        LET read == originalImage # null
        IN /\ Install(r.w)
           /\ Pressed(r.w)
           /\ last' = [op |-> "merge", nBefore |-> Len(heap), showImage |-> showImage,
                       checkboxes |-> IF read THEN checkboxes ELSE Unchecked,
                       useFrames |-> (read /\ useFrames),
                       host |-> IF read THEN host ELSE QuietHost,
                       ret |-> r.ret, how |-> r.how, temps |-> r.temps,
                       merged |-> r.merged, picked |-> r.picked, path |-> r.path]

\* "Create Merge Only": createMergeOnly(true)
CreateMerge ==
    /\ steps < MaxOps
    /\ MergeCall(TRUE, AlignCheckboxStates, {QuietHost})

\* "Align Selected Images"
Align ==
    /\ steps < MaxOps
    /\ \E choices \in ChoiceVectors, useFrames \in BOOLEAN :
       \E checkboxes \in IF HasMerge(choices) /\ originalImage # null
                         THEN AlignCheckboxStates ELSE {Unchecked} :
       \E r \in {AlignSelectedImages(World, choices, checkboxes, useFrames, QuietHost)} :
             /\ Install(r.w)
             /\ Pressed(r.w)
             /\ last' = [op |-> "align", nBefore |-> Len(heap),
                         finalBefore |-> finalAlignedImage,
                         choices |-> choices, checkboxes |-> checkboxes,
                         useFrames |-> (useFrames /\ Len(r.w.heap) > Len(heap)),
                         images |-> r.images, ret |-> r.ret, threw |-> r.threw]

\* "Close generated images"
CloseGenerated ==
    /\ steps < MaxOps
    /\ \E w \in {CloseAllExceptOriginal(World)} :
          /\ Install(w)
          /\ Pressed(w)
          /\ last' = [op |-> "close", nBefore |-> Len(heap),
                      hiddenBefore |-> [id \in 1..Len(heap) |->
                                           heap[id].open /\ ~heap[id].visible]]

Next == Extract \/ CreateMerge \/ Align \/ CloseGenerated

Spec == Init /\ [][Next]_vars

\* ------------------------------------------------------------------------
\* The Merger under a host whose calls may throw: the channels are extracted from the
\* source, then createMergeOnly is called once, with the widgets and the host in any state.
\* Hyperstacks with up to MaxSlices slices, any plane shown.
HyperstackShapes ==
    {d \in (1..NumChannelSlots) \X (1..MaxSlices) \X (1..MaxSrcFrames)
            \X (1..(NumChannelSlots * MaxSlices * MaxSrcFrames)) :
        d[4] <= d[1] * d[2] * d[3]}

MergerInit == Started(HyperstackShapes)

ExtractForMerge ==
    /\ last.op = "none"
    /\ \E useFrames \in BOOLEAN :
          \E w \in {DuplicateSplitInvert(World, useFrames)} :
             /\ Install(w)
             /\ Pressed(w)
             /\ last' = [op |-> "extract", nBefore |-> Len(heap),
                         useFrames |-> (currentImage # null /\ useFrames)]

\* "Create Merge Only": createMergeOnly(true)
CreateMergeFaulty ==
    /\ last.op = "extract"
    /\ MergeCall(TRUE, CheckboxStates, HostBehaviours)

\* The call alignSelectedImages makes for a "Merge" selection: createMergeOnly(false)
CreateMergeHidden ==
    /\ last.op = "extract"
    /\ MergeCall(FALSE, CheckboxStates, HostBehaviours)

\* Either button path before any extraction: originalImage is still null.
CreateMergeUnprepared ==
    /\ last.op = "none"
    /\ \E showImage \in BOOLEAN : MergeCall(showImage, CheckboxStates, HostBehaviours)

MergerNext ==
    ExtractForMerge \/ CreateMergeFaulty \/ CreateMergeHidden \/ CreateMergeUnprepared

SpecMerger == MergerInit /\ [][MergerNext]_vars

\* ------------------------------------------------------------------------
\* The Extractor with and without a source image.  The plugin is started with a
\* hyperstack open or with no image at all; the dialog is non-blocking, so between two
\* presses the user may click on another image window, which the next extraction then
\* takes as its source, or close every image window (File > Close All).
StartedEmpty ==
    /\ heap = <<>>
    /\ currentImage = null
    /\ originalImage = null
    /\ duplicatedCroppedImage = null
    /\ splitInvertedChannels = [i \in 1..NumChannelSlots |-> null]
    /\ splitInvertedChannelsFullStack = [i \in 1..NumChannelSlots |-> null]
    /\ finalAlignedImage = null
    /\ mergeCount = InitialMergeCount
    /\ messages = <<>>
    /\ last = NoCall
    /\ steps = 0

ExtractorInit == Started(HyperstackShapes) \/ StartedEmpty

\* "Dup / Split / Invert"; last keeps what the handler found.
ExtractPress ==
    /\ last.op \in {"none", "select", "closeAll"}
    /\ \E useFrames \in BOOLEAN :
          \E w \in {DuplicateSplitInvert(World, useFrames)} :
             /\ Install(w)
             /\ Pressed(w)
             /\ last' = [op |-> "extract", nBefore |-> Len(heap),
                         useFrames |-> (currentImage # null /\ useFrames),
                         curBefore |-> currentImage,
                         dupcBefore |-> duplicatedCroppedImage,
                         sicBefore |-> splitInvertedChannels,
                         sicFullBefore |-> splitInvertedChannelsFullStack]

\* The user closes every image window; no image is active afterwards.
UserClosesAll ==
    /\ last.op = "extract"
    /\ currentImage # null
    /\ heap' = [id \in 1..Len(heap) |->
                   IF heap[id].visible
                   THEN [heap[id] EXCEPT !.open = FALSE, !.visible = FALSE]
                   ELSE heap[id]]
    /\ currentImage' = null
    /\ messages' = <<>>
    /\ last' = [op |-> "closeAll", nBefore |-> Len(heap)]
    /\ UNCHANGED <<originalImage, duplicatedCroppedImage, splitInvertedChannels,
                   splitInvertedChannelsFullStack, finalAlignedImage, mergeCount, steps>>

\* After the extraction from the image the plugin was started on, the user clicks on
\* another image window: it becomes the active image.
UserSelects ==
    /\ last.op = "extract"
    /\ last.curBefore = 1
    /\ \E id \in 1..Len(heap) :
          /\ heap[id].visible
          /\ id # currentImage
          /\ currentImage' = id
    /\ messages' = <<>>
    /\ last' = [op |-> "select", nBefore |-> Len(heap)]
    /\ UNCHANGED <<heap, originalImage, duplicatedCroppedImage, splitInvertedChannels,
                   splitInvertedChannelsFullStack, finalAlignedImage, mergeCount, steps>>

ExtractorNext == ExtractPress \/ UserSelects \/ UserClosesAll

SpecExtractor == ExtractorInit /\ [][ExtractorNext]_vars

\* ------------------------------------------------------------------------
\* The Provider on its own: called before or after an extraction with any identifier.
\* After the extraction the user may give the source another calibration through the
\* "Properties" button (the source is the active image then).
ProviderInit == Started(HyperstackShapes)

\* "Properties": IJ.run("Properties...", "") lets the user edit the active image's
\* calibration.
EditProperties ==
    /\ last.op = "extract"
    /\ currentImage # null
    /\ heap' = [heap EXCEPT ![currentImage].cal = OtherCal]
    /\ messages' = <<>>
    /\ last' = [op |-> "properties", nBefore |-> Len(heap)]
    /\ UNCHANGED <<currentImage, originalImage, duplicatedCroppedImage,
                   splitInvertedChannels, splitInvertedChannelsFullStack,
                   finalAlignedImage, mergeCount, steps>>

\* getChannelImage16OnTheFly(chStr)
ProviderCall ==
    /\ last.op \in {"none", "extract", "properties"}
    /\ \E chStr \in Identifiers, useFrames \in BOOLEAN :
          \E r \in {GetChannelImage16OnTheFly(World, chStr, useFrames)} :
             /\ Install(r.w)
             /\ Pressed(r.w)
             /\ last' = [op |-> "provide", nBefore |-> Len(heap), chStr |-> chStr,
                         useFrames |-> (useFrames /\ r.ret # null),
                         ret |-> r.ret, threw |-> r.threw]

ProviderNext == ExtractForMerge \/ EditProperties \/ ProviderCall

SpecProvider == ProviderInit /\ [][ProviderNext]_vars

\* ------------------------------------------------------------------------
\* One pass through the dialog, top to bottom: extract, create the merge, align.  The
\* source is a 2-channel single-frame 8-bit image; the widgets are in any state, the
\* merge checkboxes staying as they were set for "Create Merge Only".  last.prev is the
\* record of the press before.
ScenarioSizes == {<<100, 256>>, <<512, 512>>}

ScenarioSources ==
    {[SourceImage(<<2, 1, 1, 1>>) EXCEPT !.width = size[1], !.height = size[2], !.cal = cal]
        : size \in ScenarioSizes, cal \in {AcquiredCal, OtherCal}}

ScenarioInit ==
    /\ heap \in {<<src>> : src \in ScenarioSources}
    /\ currentImage = 1
    /\ originalImage = null
    /\ duplicatedCroppedImage = null
    /\ splitInvertedChannels = [i \in 1..NumChannelSlots |-> null]
    /\ splitInvertedChannelsFullStack = [i \in 1..NumChannelSlots |-> null]
    /\ finalAlignedImage = null
    /\ mergeCount = InitialMergeCount
    /\ messages = <<>>
    /\ last = NoCall
    /\ steps = 0

\* "Create Merge Only" after the extraction.
ScenarioMerge ==
    /\ last.op = "extract"
    /\ \E checkboxes \in CheckboxStates, useFrames \in BOOLEAN, host \in CalmHost :
          \E r \in {CreateMergeOnly(World, TRUE, checkboxes, useFrames, host)} :
             /\ Install(r.w)
             /\ Pressed(r.w)
             /\ last' = [op |-> "merge", nBefore |-> Len(heap), showImage |-> TRUE,
                         checkboxes |-> checkboxes, useFrames |-> useFrames,
                         host |-> host, ret |-> r.ret, how |-> r.how, prev |-> last]

\* "Align Selected Images" after the merge.
ScenarioAlign ==
    /\ last.op = "merge"
    /\ \E choices \in ChoiceVectors, useFrames \in BOOLEAN, host \in CalmHost :
          \E r \in {AlignSelectedImages(World, choices, last.checkboxes, useFrames, host)} :
             /\ Install(r.w)
             /\ Pressed(r.w)
             /\ last' = [op |-> "align", nBefore |-> Len(heap),
                         finalBefore |-> finalAlignedImage,
                         choices |-> choices, checkboxes |-> last.checkboxes,
                         useFrames |-> useFrames, host |-> host,
                         images |-> r.images, ret |-> r.ret, threw |-> r.threw,
                         prev |-> last]

ScenarioNext == ExtractForMerge \/ ScenarioMerge \/ ScenarioAlign

SpecScenario == ScenarioInit /\ [][ScenarioNext]_vars

\* ------------------------------------------------------------------------
\* One alignment pass, before or after an extraction, with up to MaxAligned of the
\* five drop-downs in use and "None" possibly left between two selections; "Close
\* generated images" may be pressed at any time.
MaxAligned == 3

AlignVectors ==
    {[i \in 1..NumAlignmentChoices |-> IF i <= MaxAligned THEN s[i] ELSE "None"]
        : s \in [1..MaxAligned -> PickedOptions \cup {"None"}]}

\* "Align Selected Images"
AlignOnce ==
    /\ last.op \in {"none", "extract"}
    /\ \E choices \in AlignVectors, useFrames \in BOOLEAN :
       \E checkboxes \in IF HasMerge(choices) /\ originalImage # null
                         THEN AlignCheckboxStates ELSE {Unchecked} :
       \E r \in {AlignSelectedImages(World, choices, checkboxes, useFrames, QuietHost)} :
             /\ Install(r.w)
             /\ Pressed(r.w)
             /\ last' = [op |-> "align", nBefore |-> Len(heap),
                         finalBefore |-> finalAlignedImage,
                         choices |-> choices, checkboxes |-> checkboxes,
                         useFrames |-> (useFrames /\ Len(r.w.heap) > Len(heap)),
                         images |-> r.images, ret |-> r.ret, threw |-> r.threw]

AlignNext == ExtractForMerge \/ AlignOnce \/ CloseGenerated

SpecAlign == Init /\ [][AlignNext]_vars

\* ------------------------------------------------------------------------
\* The Z position the Extractor and the Merger compute.  The source is a hyperstack
\* with up to MaxDepth slices showing any of its planes; after the extraction the user
\* may scroll the source to another plane before the merge is created.  last.currentZ is
\* the handler's local variable currentZ, last.slice its currentSlice.
MaxDepth == 3

DeepShapes ==
    {d \in (1..NumChannelSlots) \X (1..MaxDepth) \X (1..MaxSrcFrames)
            \X (1..(NumChannelSlots * MaxDepth * MaxSrcFrames)) :
        d[4] <= d[1] * d[2] * d[3]}

\* "Dup / Split / Invert"
PositionExtract ==
    /\ last.op = "none"
    /\ \E useFrames \in BOOLEAN :
          \E w \in {DuplicateSplitInvert(World, useFrames)} :
             /\ Install(w)
             /\ Pressed(w)
             /\ last' = [op |-> "extract", nBefore |-> Len(heap), useFrames |-> useFrames,
                         slice |-> heap[currentImage].slice,
                         currentZ |-> CurrentZ(heap[currentImage])]

\* The user moves the source's sliders: another plane is shown.
UserScrolls ==
    /\ last.op = "extract"
    /\ \E s \in 1..(heap[originalImage].nChannels * heap[originalImage].nSlices
                       * heap[originalImage].nFrames) :
          /\ s # heap[originalImage].slice
          /\ heap' = [heap EXCEPT ![originalImage].slice = s]
    /\ messages' = <<>>
    /\ last' = [op |-> "scroll", nBefore |-> Len(heap), extract |-> last]
    /\ UNCHANGED <<currentImage, originalImage, duplicatedCroppedImage,
                   splitInvertedChannels, splitInvertedChannelsFullStack,
                   finalAlignedImage, mergeCount, steps>>

\* "Create Merge Only": createMergeOnly(true)
PositionMerge ==
    /\ last.op \in {"extract", "scroll"}
    /\ \E checkboxes \in AlignCheckboxStates, useFrames \in BOOLEAN :
          \E r \in {CreateMergeOnly(World, TRUE, checkboxes, useFrames, QuietHost)} :
             /\ Install(r.w)
             /\ Pressed(r.w)
             /\ last' = [op |-> "merge", nBefore |-> Len(heap), useFrames |-> useFrames,
                         checkboxes |-> checkboxes,
                         slice |-> heap[originalImage].slice,
                         currentZ |-> CurrentZ(heap[originalImage]),
                         ret |-> r.ret, how |-> r.how, temps |-> r.temps,
                         extract |-> IF last.op = "scroll" THEN last.extract ELSE last]

PositionNext == PositionExtract \/ UserScrolls \/ PositionMerge

SpecPosition == Started(DeepShapes) /\ [][PositionNext]_vars

\* ------------------------------------------------------------------------
\* Version 2.0 with "use frames" never checked, next to version 1.0: every press is
\* handled by version 2.0, and last.v1 is what version 1.0's handler makes of the same
\* state and the same widgets under the same host.
VersionShapes ==
    {d \in HyperstackShapes : d[4] = 1 \/ d[4] = d[1] * d[2] * d[3]}

\* "Dup / Split / Invert"
VersionsExtract ==
    /\ steps < MaxOps
    /\ \E w2 \in {DuplicateSplitInvert(World, FALSE)} :
       \E w1 \in {V1DuplicateSplitInvert(World)} :
          /\ Install(w2)
          /\ Pressed(w2)
          /\ last' = [op |-> "extract", nBefore |-> Len(heap), ret |-> null,
                      threw |-> FALSE, v1 |-> [w |-> w1, ret |-> null, threw |-> FALSE]]

\* "Create Merge Only": createMergeOnly(true)
VersionsMerge ==
    /\ steps < MaxOps
    /\ \E checkboxes \in AlignCheckboxStates, host \in CalmHost :
       \E r2 \in {CreateMergeOnly(World, TRUE, checkboxes, FALSE, host)} :
       \E r1 \in {V1CreateMergeOnly(World, TRUE, checkboxes, host)} :
          /\ Install(r2.w)
          /\ Pressed(r2.w)
          /\ last' = [op |-> "merge", nBefore |-> Len(heap), ret |-> r2.ret,
                      threw |-> FALSE,
                      v1 |-> [w |-> r1.w, ret |-> r1.ret, threw |-> FALSE]]

\* "Align Selected Images"
VersionsAlign ==
    /\ steps < MaxOps
    /\ \E choices \in ChoiceVectors, host \in CalmHost :
       \E checkboxes \in IF HasMerge(choices) /\ originalImage # null
                         THEN AlignCheckboxStates ELSE {Unchecked} :
       \E r2 \in {AlignSelectedImages(World, choices, checkboxes, FALSE, host)} :
       \E r1 \in {V1AlignSelectedImages(World, choices, checkboxes, host)} :
          /\ Install(r2.w)
          /\ Pressed(r2.w)
          /\ last' = [op |-> "align", nBefore |-> Len(heap), ret |-> r2.ret,
                      threw |-> r2.threw,
                      v1 |-> [w |-> r1.w, ret |-> r1.ret, threw |-> r1.threw]]

\* "Close generated images"
VersionsClose ==
    /\ steps < MaxOps
    /\ \E w2 \in {CloseAllExceptOriginal(World)} :
       \E w1 \in {V1CloseAllExceptOriginal(World)} :
          /\ Install(w2)
          /\ Pressed(w2)
          /\ last' = [op |-> "close", nBefore |-> Len(heap), ret |-> null,
                      threw |-> FALSE, v1 |-> [w |-> w1, ret |-> null, threw |-> FALSE]]

VersionsNext == VersionsExtract \/ VersionsMerge \/ VersionsAlign \/ VersionsClose

SpecVersions == Started(VersionShapes) /\ [][VersionsNext]_vars

\* ------------------------------------------------------------------------
\* Properties of the Montage Assembler, stated on the state after a call
\* (SpecStack: last.images are the inputs, last.ret the montage).
StackCalled == last.op = "stack" /\ Len(last.images) >= 2

\* Sum of the widths of the first n inputs.
RECURSIVE WidthOfFirst(_, _, _)
WidthOfFirst(h, images, n) ==
    IF n = 0 THEN 0 ELSE WidthOfFirst(h, images, n - 1) + h[images[n]].width

\* C1: for every list of two or more inputs, the montage's width is the sum of the
\* inputs' widths and its height is the largest of the inputs' heights.
C1_WidthSumHeightMax ==
    StackCalled =>
        /\ heap[last.ret].kind = "stacked"
        /\ heap[last.ret].width = WidthOfFirst(heap, last.images, Len(last.images))
        /\ \A i \in DOMAIN last.images :
              heap[last.images[i]].height <= heap[last.ret].height
        /\ \E i \in DOMAIN last.images :
              heap[last.images[i]].height = heap[last.ret].height

\* Inputs 100 and 150 wide, of equal height, gave a montage 250 wide.
C1_Witness ==
    /\ StackCalled
    /\ Len(last.images) = 2
    /\ heap[last.images[1]].width = 100
    /\ heap[last.images[2]].width = 150
    /\ heap[last.images[1]].height = heap[last.images[2]].height
    /\ heap[last.ret].width = 250
    /\ heap[last.ret].height = heap[last.images[1]].height

\* C2: the montage has as many frames as the input with the most frames (1 if no input
\* has more than one), and in every output frame f the block in input i's region is
\* input i's frame f if it has that many frames, its last frame otherwise.
C2_FramePadding ==
    StackCalled =>
        /\ \A i \in DOMAIN last.images :
              heap[last.images[i]].nFrames <= heap[last.ret].nFrames
        /\ \E i \in DOMAIN last.images :
              heap[last.images[i]].nFrames = heap[last.ret].nFrames
        /\ Len(heap[last.ret].blocks) = heap[last.ret].nFrames
        /\ \A f \in DOMAIN heap[last.ret].blocks :
              /\ Len(heap[last.ret].blocks[f]) = Len(last.images)
              /\ \A i \in DOMAIN last.images :
                    /\ heap[last.ret].blocks[f][i].img = last.images[i]
                    /\ heap[last.ret].blocks[f][i].frame =
                          IF heap[last.images[i]].nFrames >= f THEN f
                          ELSE heap[last.images[i]].nFrames

\* Inputs with 1 and 3 frames: 3 output frames, the first input's frame 1 in each.
C2_Witness ==
    /\ StackCalled
    /\ Len(last.images) = 2
    /\ heap[last.images[1]].nFrames = 1
    /\ heap[last.images[2]].nFrames = 3
    /\ heap[last.ret].nFrames = 3
    /\ heap[last.ret].blocks[2][1].frame = 1
    /\ heap[last.ret].blocks[3][1].frame = 1
    /\ heap[last.ret].blocks[3][2].frame = 3

\* C3: in every frame, input i lies at y = 0 and at x = the sum of the widths of the
\* inputs before it, in the order passed; the regions do not overlap and together
\* cover the montage's width.
C3_Offsets ==
    StackCalled =>
        \A f \in DOMAIN heap[last.ret].blocks :
            LET row == heap[last.ret].blocks[f]
            IN /\ \A i \in DOMAIN last.images :
                    /\ row[i].img = last.images[i]
                    /\ row[i].y = 0
                    /\ row[i].x = WidthOfFirst(heap, last.images, i - 1)
                    /\ row[i].w = heap[last.images[i]].width
               /\ \A i, j \in DOMAIN last.images :
                    i < j => row[i].x + row[i].w <= row[j].x
               /\ row[1].x = 0
               /\ \A i \in 1..(Len(row) - 1) : row[i].x + row[i].w = row[i + 1].x
               /\ row[Len(row)].x + row[Len(row)].w = heap[last.ret].width

\* A 150 wide input followed by a 100 wide one, several frames: the second at x = 150.
C3_Witness ==
    /\ StackCalled
    /\ heap[last.images[1]].width = 150
    /\ heap[last.images[2]].width = 100
    /\ heap[last.ret].nFrames > 1
    /\ heap[last.ret].blocks[2][2].x = 150
    /\ heap[last.ret].blocks[2][2].y = 0

ShortLists == {<<>>} \cup {<<id>> : id \in 1..Len(heap)}

MergeCalled == last.op = "merge" /\ originalImage # null

\* The images the last call created.
CreatedByLast == (last.nBefore + 1)..Len(heap)

\* The channels 1..n whose checkbox is set, in ascending order, from channel j on.
RECURSIVE FlaggedFrom(_, _, _)
FlaggedFrom(checkboxes, n, j) ==
    IF j > n THEN <<>>
    ELSE (IF checkboxes[j] THEN <<j>> ELSE <<>>) \o FlaggedFrom(checkboxes, n, j + 1)

\* C6: with all four merge checkboxes unselected the Merger returns nothing and leaves
\* no new visible composite, in both modes and for either value of showImage.
C6_NothingSelected ==
    (MergeCalled /\ last.checkboxes = Unchecked) =>
        /\ last.ret = null
        /\ last.merged = null
        /\ \A id \in CreatedByLast : heap[id].kind # "merged"

\* Time-stack mode, showImage set, nothing selected: the call fell off its end.
C6_Witness ==
    /\ MergeCalled
    /\ last.checkboxes = Unchecked
    /\ last.path = "multi"
    /\ last.showImage
    /\ last.how = "undefined"
    /\ last.ret = null

\* C7: on every return path of the Merger the duplicate of the source and every
\* per-channel split have been marked unmodified and closed.
C7_TemporariesClosed ==
    (MergeCalled /\ last.how \in {"image", "null", "undefined"}) =>
        \A k \in DOMAIN last.temps :
            /\ ~heap[last.temps[k]].open
            /\ ~heap[last.temps[k]].changes

\* Time-stack mode, nothing selected: the duplicate and the splits are still open.
C7_Witness ==
    /\ MergeCalled
    /\ last.how = "undefined"
    /\ last.path = "multi"
    /\ Len(last.temps) >= 2
    /\ \A k \in DOMAIN last.temps : heap[last.temps[k]].open
    /\ heap[last.temps[1]].visible

\* C8 (as stated): the composite's five calibration fields equal the source's, in
\* both modes.
C8_CalibrationEqual ==
    (MergeCalled /\ last.how = "image") =>
        heap[last.ret].cal = heap[originalImage].cal

\* C8 (amended): the composite's pixel width, pixel height and unit equal the
\* source's in both modes; its frame interval and fps equal the source's in
\* time-stack mode.
C8_CalibrationCopied ==
    (MergeCalled /\ last.how = "image") =>
        /\ heap[last.ret].cal.pixelWidth = heap[originalImage].cal.pixelWidth
        /\ heap[last.ret].cal.pixelHeight = heap[originalImage].cal.pixelHeight
        /\ heap[last.ret].cal.unit = heap[originalImage].cal.unit
        /\ last.path = "multi" =>
              /\ heap[last.ret].cal.frameInterval = heap[originalImage].cal.frameInterval
              /\ heap[last.ret].cal.fps = heap[originalImage].cal.fps

\* A single-frame composite whose spatial fields are the source's and whose frame
\* interval is not.
C8_Witness ==
    /\ MergeCalled
    /\ last.how = "image"
    /\ last.path = "single"
    /\ ~last.host.keepsCal
    /\ heap[last.ret].cal.unit = heap[originalImage].cal.unit
    /\ heap[last.ret].cal.frameInterval # heap[originalImage].cal.frameInterval

\* C9 (as stated): the channels combined are exactly those whose checkbox is set, in
\* ascending order.
C9_ExactlyFlagged ==
    (MergeCalled /\ last.how = "image") =>
        /\ last.picked = FlaggedFrom(last.checkboxes, NumChannelSlots, 1)
        /\ heap[last.ret].chans = last.picked

\* C9 (amended): the channels combined are exactly those whose checkbox is set and
\* which the source has, in ascending order.
C9_FlaggedAndPresent ==
    (MergeCalled /\ last.how = "image") =>
        /\ last.picked = FlaggedFrom(last.checkboxes, heap[originalImage].nChannels, 1)
        /\ heap[last.ret].chans = last.picked
        /\ last.picked # <<>>

\* A composite made while a checkbox beyond the source's channels was set.
C9_Witness ==
    /\ MergeCalled
    /\ last.how = "image"
    /\ heap[originalImage].nChannels = 2
    /\ last.checkboxes[1] /\ last.checkboxes[2] /\ last.checkboxes[3]
    /\ last.picked = <<1, 2>>

\* C10: a failure at any step of the Merger yields null, and whenever the Merger
\* returns null no composite it made is visible.
C10_NullLeavesNoComposite ==
    MergeCalled =>
        /\ last.how = "caught" => last.ret = null
        /\ last.ret = null =>
              \A id \in CreatedByLast : heap[id].kind = "merged" => ~heap[id].visible

\* The clean-up failed after the composite had been shown: null, composite visible.
C10_Witness ==
    /\ MergeCalled
    /\ last.how = "caught"
    /\ last.host.failAt = "cleanup"
    /\ last.showImage
    /\ last.ret = null
    /\ last.merged # null
    /\ heap[last.merged].visible

\* C11: the Merger returns the composite, visible exactly when showImage is set; it
\* returns nothing when no channel of the source is selected or when originalImage is
\* unset, and in the latter case it creates no image.
C11_ResultShownAsAsked ==
    last.op = "merge" =>
        /\ originalImage = null =>
              /\ last.ret = null
              /\ last.how = "null"
              /\ Len(heap) = last.nBefore
              /\ mergeCount = InitialMergeCount
              /\ messages = <<"Error">>
        /\ originalImage # null =>
              LET selected == FlaggedFrom(last.checkboxes, heap[originalImage].nChannels, 1)
              IN /\ selected = <<>> => last.ret = null
                 /\ (selected # <<>> /\ last.host.failAt = NoFailure) => last.how = "image"
                 /\ last.how = "image" =>
                       /\ last.ret = last.merged
                       /\ last.ret \in CreatedByLast
                       /\ heap[last.ret].kind = "merged"
                       /\ heap[last.ret].open
                       /\ heap[last.ret].visible <=> last.showImage

\* The call alignment makes: a composite was returned and it has no window.
C11_Witness ==
    /\ MergeCalled
    /\ last.how = "image"
    /\ ~last.showImage
    /\ heap[last.ret].kind = "merged"
    /\ heap[last.ret].open
    /\ ~heap[last.ret].visible

\* ------------------------------------------------------------------------
\* Properties of the Extractor, stated on the state after a press (SpecExtractor).
ExtractCalled == last.op = "extract" /\ originalImage # null

\* C12: after an extraction on a source with n channels (1 to 4), in either mode,
\* Channel Set entries 1..n hold the n channel images just made and every entry from
\* n + 1 to 4 is null, in the display set and in the full-stack set, whatever an
\* earlier extraction had stored there.
C12_TrailingEntriesNull ==
    ExtractCalled =>
        LET n == SplitCount(heap[originalImage])
            full == last.useFrames /\ heap[duplicatedCroppedImage].nFrames > 1
        IN /\ n \in 1..NumChannelSlots
           /\ duplicatedCroppedImage = last.nBefore + 1
           /\ Len(heap) = last.nBefore + 1 + n
           /\ \A k \in 1..NumChannelSlots :
                 IF k <= n
                 THEN /\ splitInvertedChannels[k] = last.nBefore + 1 + k
                      /\ heap[splitInvertedChannels[k]].kind = "split"
                      /\ heap[splitInvertedChannels[k]].from = duplicatedCroppedImage
                      /\ heap[splitInvertedChannels[k]].open
                      /\ splitInvertedChannelsFullStack[k] =
                            IF full THEN splitInvertedChannels[k] ELSE null
                 ELSE /\ splitInvertedChannels[k] = null
                      /\ splitInvertedChannelsFullStack[k] = null

\* An extraction of fewer than four channels after an earlier one had made a fourth
\* channel image: entry 4 is null again.
C12_Witness ==
    /\ ExtractCalled
    /\ SplitCount(heap[originalImage]) < NumChannelSlots
    /\ \E id \in 1..last.nBefore :
          /\ heap[id].kind = "split"
          /\ heap[id].title[2] = "4"
    /\ splitInvertedChannels[NumChannelSlots] = null
    /\ splitInvertedChannelsFullStack[NumChannelSlots] = null

\* C13: pressed with no image open, the Extractor shows its error box and extracts
\* nothing: no image is created or shown and both Channel Sets (and the reference to
\* the duplicate) are exactly what they were.
C13_NoSourceNoExtraction ==
    (last.op = "extract" /\ last.curBefore = null) =>
        /\ messages = <<"Error">>
        /\ Len(heap) = last.nBefore
        /\ \A id \in 1..Len(heap) : ~heap[id].visible
        /\ currentImage = null
        /\ splitInvertedChannels = last.sicBefore
        /\ splitInvertedChannelsFullStack = last.sicFullBefore
        /\ duplicatedCroppedImage = last.dupcBefore

\* Pressed after the user had closed every window of an earlier time-stack extraction:
\* the entries that extraction stored are still there.
C13_Witness ==
    /\ last.op = "extract"
    /\ last.curBefore = null
    /\ messages = <<"Error">>
    /\ last.sicBefore[2] # null
    /\ last.sicFullBefore[2] # null
    /\ splitInvertedChannels[2] = last.sicBefore[2]
    /\ splitInvertedChannelsFullStack[2] = last.sicFullBefore[2]

\* ------------------------------------------------------------------------
\* Properties of the Provider, stated on the state after a call (SpecProvider).
\* The channel an identifier names when only "Ch1".."Ch4" name one.
ExactChannel ==
    [s \in Identifiers |->
        CASE s = "Ch1" -> 1 [] s = "Ch2" -> 2 [] s = "Ch3" -> 3 [] s = "Ch4" -> 4
          [] OTHER -> 0]

\* The channel an identifier names when "Ch" may be followed by white space, a plus
\* sign and leading zeros, and the number may be followed by anything.
ReadChannel ==
    [s \in Identifiers |->
        CASE s \in {"Ch1", "Ch01", "Ch1x"} -> 1
          [] s \in {"Ch2", "Ch 2"} -> 2
          [] s \in {"Ch3", "Ch+3"} -> 3
          [] s \in {"Ch4", "Ch4.5"} -> 4
          [] OTHER -> 0]

\* What a call returned, when named tells which channel each identifier stands for:
\* nothing and no new image for an identifier without a channel or with an empty
\* entry; otherwise one new image, a copy of the entry, open without a window, 16-bit,
\* with the original's pixel size and unit, and with its frame interval and fps if
\* the copy has more than one frame.
ProviderContract(named) ==
    last.op = "provide" =>
        LET k == named[last.chStr]
        IN IF k = 0 \/ splitInvertedChannels[k] = null
           THEN /\ last.ret = null
                /\ ~last.threw
                /\ Len(heap) = last.nBefore
           ELSE /\ last.ret = last.nBefore + 1
                /\ Len(heap) = last.nBefore + 1
                /\ heap[last.ret].from = splitInvertedChannels[k]
                /\ heap[last.ret].open
                /\ ~heap[last.ret].visible
                /\ heap[last.ret].bitDepth = 16
                /\ heap[last.ret].cal.pixelWidth = heap[originalImage].cal.pixelWidth
                /\ heap[last.ret].cal.pixelHeight = heap[originalImage].cal.pixelHeight
                /\ heap[last.ret].cal.unit = heap[originalImage].cal.unit
                /\ heap[last.ret].nFrames > 1 =>
                      /\ heap[last.ret].cal.frameInterval =
                            heap[originalImage].cal.frameInterval
                      /\ heap[last.ret].cal.fps = heap[originalImage].cal.fps

BothChecked == [i \in 1..NumChannelSlots |-> i <= 2]

\* Extract, then "Create Merge Only" with Ch1 and Ch2 checked, then "Align Selected
\* Images" with "Ch1" and "Merge" chosen.
ScenarioPlayed ==
    /\ last.op = "align"
    /\ last.choices = <<"Ch1", "Merge", "None", "None", "None">>
    /\ last.prev.op = "merge"
    /\ last.prev.checkboxes = BothChecked
    /\ last.prev.prev.op = "extract"

\* C15: from a 2-channel single-frame 8-bit W x H source, Extract, Create Merge with
\* both checkboxes set and Align with "Ch1" and "Merge" leave two inverted 8-bit W x H
\* channel images in entries 1 and 2 with entries 3 and 4 null, one shown 24-bit W x H
\* composite with the source's pixel size and unit, and one shown 24-bit montage of
\* 2W x H, which finalAlignedImage refers to.
C15_EndToEnd ==
    ScenarioPlayed =>
        /\ \A k \in 1..2 :
              /\ splitInvertedChannels[k] # null
              /\ heap[splitInvertedChannels[k]].kind = "split"
              /\ heap[splitInvertedChannels[k]].chans = <<k>>
              /\ heap[splitInvertedChannels[k]].bitDepth = 8
              /\ heap[splitInvertedChannels[k]].inverted
              /\ heap[splitInvertedChannels[k]].width = heap[1].width
              /\ heap[splitInvertedChannels[k]].height = heap[1].height
              /\ heap[splitInvertedChannels[k]].visible
        /\ \A k \in 3..NumChannelSlots : splitInvertedChannels[k] = null
        /\ {id \in 1..Len(heap) : heap[id].kind = "split"} =
              {splitInvertedChannels[1], splitInvertedChannels[2]}
        /\ last.prev.ret # null
        /\ {id \in 1..Len(heap) : heap[id].kind = "merged" /\ heap[id].visible} =
              {last.prev.ret}
        /\ heap[last.prev.ret].bitDepth = 24
        /\ heap[last.prev.ret].width = heap[1].width
        /\ heap[last.prev.ret].height = heap[1].height
        /\ heap[last.prev.ret].chans = <<1, 2>>
        /\ heap[last.prev.ret].cal.pixelWidth = heap[1].cal.pixelWidth
        /\ heap[last.prev.ret].cal.pixelHeight = heap[1].cal.pixelHeight
        /\ heap[last.prev.ret].cal.unit = heap[1].cal.unit
        /\ last.ret # null
        /\ finalAlignedImage = last.ret
        /\ {id \in 1..Len(heap) : heap[id].kind = "stacked"} = {last.ret}
        /\ heap[last.ret].visible
        /\ heap[last.ret].width = 2 * heap[1].width
        /\ heap[last.ret].height = heap[1].height
        /\ heap[last.ret].bitDepth = 24
        /\ heap[last.ret].nFrames = 1

\* The pass on a 512 x 512 source: the montage is 1024 x 512 and 24-bit.
C15_Witness ==
    /\ ScenarioPlayed
    /\ heap[1].width = 512
    /\ heap[1].height = 512
    /\ last.ret # null
    /\ heap[last.ret].kind = "stacked"
    /\ heap[last.ret].width = 1024
    /\ heap[last.ret].height = 512
    /\ heap[last.ret].bitDepth = 24

\* ------------------------------------------------------------------------
\* Properties of an alignment pass, stated on the state after the press (Spec).
AlignReturned == last.op = "align" /\ ~last.threw

\* C16: when alignSelectedImages returns, with a montage or with the stacking error,
\* every hidden image it gathered has been marked unmodified and closed, and the only
\* image the pass created that is still open is the montage.
C16_IntermediatesClosed ==
    AlignReturned =>
        /\ \A i \in DOMAIN last.images :
              /\ ~heap[last.images[i]].open
              /\ ~heap[last.images[i]].changes
        /\ \A id \in (last.nBefore + 1)..Len(heap) : heap[id].open => id = last.ret

\* A pass that produced a montage from a channel copy and a composite: both are still
\* open, without a window.
C16_Witness ==
    /\ AlignReturned
    /\ last.ret # null
    /\ Len(last.images) = 2
    /\ heap[last.images[1]].kind = "dup16"
    /\ heap[last.images[2]].kind = "merged"
    /\ \A i \in DOMAIN last.images :
          /\ heap[last.images[i]].open
          /\ ~heap[last.images[i]].visible

\* The drop-downs that were not on "None" in the last pass.
Selections == {i \in DOMAIN last.choices : last.choices[i] # "None"}

\* C17: an alignment pass either produces a montage with one block for every
\* selection other than "None", or produces no montage; never a montage of only some
\* of the selections.
C17_AllOrNothing ==
    AlignReturned =>
        \/ /\ last.ret = null
           /\ \A id \in (last.nBefore + 1)..Len(heap) : heap[id].kind # "stacked"
        \/ /\ last.ret # null
           /\ \A f \in DOMAIN heap[last.ret].blocks :
                 Len(heap[last.ret].blocks[f]) = Cardinality(Selections)

\* "Ch1", "Ch2" and "Ch4" chosen on a source without a fourth channel: a montage of
\* two blocks.
C17_Witness ==
    /\ AlignReturned
    /\ last.choices = <<"Ch1", "Ch2", "Ch4", "None", "None">>
    /\ splitInvertedChannels[NumChannelSlots] = null
    /\ last.ret # null
    /\ heap[last.ret].kind = "stacked"
    /\ Len(heap[last.ret].blocks[1]) = 2
    /\ finalAlignedImage = last.ret

C20_CalibrationFromFirst ==
    StackCalled =>
        LET first == heap[last.images[1]].cal
            temporal == \E i \in DOMAIN last.images : heap[last.images[i]].nFrames > 1
        IN /\ heap[last.ret].cal.pixelWidth = first.pixelWidth
           /\ heap[last.ret].cal.pixelHeight = first.pixelHeight
           /\ heap[last.ret].cal.unit = first.unit
           /\ heap[last.ret].cal.frameInterval =
                 IF temporal THEN first.frameInterval ELSE DefaultCal.frameInterval
           /\ heap[last.ret].cal.fps = IF temporal THEN first.fps ELSE DefaultCal.fps

\* A single-frame first input and a multi-frame second one with another calibration:
\* all five fields of the montage are the first input's.
C20_Witness ==
    /\ StackCalled
    /\ Len(last.images) = 2
    /\ heap[last.images[1]].nFrames = 1
    /\ heap[last.images[2]].nFrames > 1
    /\ heap[last.images[1]].cal = AcquiredCal
    /\ heap[last.images[2]].cal = OtherCal
    /\ heap[last.ret].cal = AcquiredCal

\* ------------------------------------------------------------------------
\* The Z position (SpecPosition).
\* z is the Z coordinate of stack index s in img: s = (t-1)*Z*C + (z-1)*C + c for a
\* channel c and a frame t of img.
IsZOf(z, s, img) ==
    /\ z \in 1..img.nSlices
    /\ \E c \in 1..img.nChannels, t \in 1..img.nFrames :
          s = (t - 1) * img.nSlices * img.nChannels + (z - 1) * img.nChannels + c

\* C21: for every source with C channels, Z slices and T frames showing any stack index
\* s in 1..C*Z*T, the Z position the Extractor and the Merger compute lies in 1..Z and
\* is the Z coordinate of s in the channel-fastest order; the time-stack duplicate of a
\* source with several slices is taken at that Z; and the Merger computes the Z the
\* Extractor computed whenever the source shows the same plane.
C21_ZPosition ==
    last.op \in {"extract", "merge"} =>
        /\ last.slice = heap[originalImage].slice
        /\ last.currentZ \in 1..heap[originalImage].nSlices
        /\ IsZOf(last.currentZ, last.slice, heap[originalImage])
        /\ (last.useFrames /\ heap[originalImage].nFrames > 1
               /\ heap[originalImage].nSlices > 1) =>
              /\ heap[last.nBefore + 1].from = originalImage
              /\ heap[last.nBefore + 1].nFrames = heap[originalImage].nFrames
              /\ heap[last.nBefore + 1].zsel = last.currentZ
        /\ (last.op = "merge" /\ last.slice = last.extract.slice) =>
              last.currentZ = last.extract.currentZ

\* A 2-channel, 3-slice, 2-frame source showing plane 11 (channel 1, slice 3, frame 2):
\* the Extractor and the Merger both computed Z = 3 and duplicated all frames there.
C21_Witness ==
    /\ last.op = "merge"
    /\ last.extract.useFrames
    /\ last.useFrames
    /\ heap[originalImage].nChannels = 2
    /\ heap[originalImage].nSlices = 3
    /\ heap[originalImage].nFrames = 2
    /\ last.slice = 11
    /\ last.extract.slice = 11
    /\ last.currentZ = 3
    /\ last.extract.currentZ = 3
    /\ heap[duplicatedCroppedImage].zsel = 3
    /\ heap[last.nBefore + 1].zsel = 3

\* ------------------------------------------------------------------------
\* The two Channel Sets (SpecExtractor).
\* C22: in every state, each full-stack entry is null or the very image of the display
\* entry with the same index; after an extraction the full-stack entries of the
\* channels extracted are populated exactly if it ran with "use frames" set on a source
\* with more than one frame, every entry then having all the source's frames, and all
\* full-stack entries are null if it ran in single-frame mode, every display entry then
\* having one frame.
C22_FullStackMirrorsDisplay ==
    /\ \A i \in 1..NumChannelSlots :
          splitInvertedChannelsFullStack[i] \in {null, splitInvertedChannels[i]}
    /\ ExtractCalled =>
          LET timeStack == last.useFrames /\ heap[originalImage].nFrames > 1
          IN \A i \in 1..NumChannelSlots :
                splitInvertedChannels[i] # null =>
                    IF timeStack
                    THEN /\ splitInvertedChannelsFullStack[i] = splitInvertedChannels[i]
                         /\ heap[splitInvertedChannels[i]].nFrames =
                               heap[originalImage].nFrames
                    ELSE /\ splitInvertedChannelsFullStack[i] = null
                         /\ heap[splitInvertedChannels[i]].nFrames = 1

\* A single-frame extraction from a source with several frames, after a time-stack
\* extraction had populated the full-stack entries: they are all null again and the
\* display entries have one frame.
C22_Witness ==
    /\ ExtractCalled
    /\ ~last.useFrames
    /\ heap[originalImage].nFrames > 1
    /\ last.sicFullBefore[1] # null
    /\ last.sicFullBefore[1] = last.sicBefore[1]
    /\ heap[last.sicFullBefore[1]].nFrames > 1
    /\ splitInvertedChannels[1] # null
    /\ heap[splitInvertedChannels[1]].nFrames = 1
    /\ \A i \in 1..NumChannelSlots : splitInvertedChannelsFullStack[i] = null

\* ------------------------------------------------------------------------
\* The images an alignment pass gathers (SpecAlign).
\* What the choices from the i-th on are to contribute, in order: nothing for "None";
\* a composite for "Merge" when the Merger has one to return (originalImage set and a
\* checked channel the source has); a copy of the entry for "ChN" when it is populated.
RECURSIVE Contributions(_, _)
Contributions(choices, i) ==
    IF i > Len(choices) THEN <<>>
    ELSE (CASE choices[i] = "None" -> <<>>
            [] choices[i] = "Merge" ->
                  IF originalImage # null
                     /\ FlaggedFrom(last.checkboxes, heap[originalImage].nChannels, 1) # <<>>
                  THEN <<[kind |-> "merged", from |-> null]>> ELSE <<>>
            [] OTHER ->
                  IF splitInvertedChannels[ExactChannel[choices[i]]] # null
                  THEN <<[kind |-> "dup16",
                          from |-> splitInvertedChannels[ExactChannel[choices[i]]]]>>
                  ELSE <<>>)
         \o Contributions(choices, i + 1)

\* The "Merge" choices of the last pass.
MergeChoices == {i \in DOMAIN last.choices : last.choices[i] = "Merge"}

\* C23: the images alignSelectedImages gathers are exactly those obtained from the five
\* choices, in choice order: "None" gives nothing, every "Merge" that yields a
\* composite gives one new hidden composite (the Merger being invoked once per
\* occurrence), every "ChN" with a populated entry gives one new hidden copy of that
\* entry (two copies for a channel chosen twice); with two or more of them the Montage
\* Assembler gets exactly this list and finalAlignedImage is the montage it made.
C23_GatheredInChoiceOrder ==
    AlignReturned =>
        LET expected == Contributions(last.choices, 1)
        IN /\ Len(last.images) = Len(expected)
           /\ \A k \in DOMAIN last.images :
                 /\ last.images[k] \in CreatedByLast
                 /\ heap[last.images[k]].kind = expected[k].kind
                 /\ expected[k].kind = "dup16" => heap[last.images[k]].from = expected[k].from
                 /\ heap[last.images[k]].open
                 /\ ~heap[last.images[k]].visible
           /\ \A j, k \in DOMAIN last.images : j < k => last.images[j] < last.images[k]
           /\ originalImage # null =>
                 Cardinality({id \in CreatedByLast : heap[id].kind = "mergeDup"})
                     = Cardinality(MergeChoices)
           /\ IF Len(last.images) >= 2
              THEN /\ last.ret = Len(heap)
                   /\ last.ret \in CreatedByLast
                   /\ heap[last.ret].kind = "stacked"
                   /\ finalAlignedImage = last.ret
                   /\ \A f \in DOMAIN heap[last.ret].blocks :
                         /\ Len(heap[last.ret].blocks[f]) = Len(last.images)
                         /\ \A k \in DOMAIN last.images :
                               heap[last.ret].blocks[f][k].img = last.images[k]
              ELSE /\ last.ret = null
                   /\ finalAlignedImage = last.finalBefore

\* "Ch1", "Ch1", "Merge": two different copies of channel 1 and a composite, in this
\* order, are the three blocks of the montage finalAlignedImage refers to.
C23_Witness ==
    /\ AlignReturned
    /\ last.choices = <<"Ch1", "Ch1", "Merge", "None", "None">>
    /\ Len(last.images) = 3
    /\ heap[last.images[1]].kind = "dup16"
    /\ heap[last.images[2]].kind = "dup16"
    /\ heap[last.images[1]].from = splitInvertedChannels[1]
    /\ heap[last.images[2]].from = splitInvertedChannels[1]
    /\ last.images[1] # last.images[2]
    /\ heap[last.images[3]].kind = "merged"
    /\ finalAlignedImage = last.ret
    /\ heap[finalAlignedImage].kind = "stacked"
    /\ Len(heap[finalAlignedImage].blocks[1]) = 3
    /\ heap[finalAlignedImage].blocks[1][3].img = last.images[3]

\* ------------------------------------------------------------------------
\* The module-level references over the whole workflow (Spec).
\* C24: in every state reachable by pressing Extract, Create Merge, Align and Close
\* generated images in any order, originalImage is unset or refers to the image the
\* user opened, never to an image the plugin generated.
C24_OriginalIsSource ==
    originalImage # null => heap[originalImage].kind = "source"

\* Extract, Create Merge Only, Extract: the second extraction took the composite, the
\* active image since it was shown, as the original; the user's image is still open.
C24_Witness ==
    /\ last.op = "extract"
    /\ originalImage # null
    /\ heap[originalImage].kind = "merged"
    /\ heap[originalImage].visible
    /\ heap[duplicatedCroppedImage].from = originalImage
    /\ heap[1].kind = "source"
    /\ heap[1].open

\* ------------------------------------------------------------------------
\* The Channel Set and the original image (SpecExtractor).
\* What the Provider would return for entry i in the present state.
Provided(i, useFrames) ==
    GetChannelImage16OnTheFly(World, baseChannelOptions[i + 1], useFrames)

\* C25: in every state, for any order of extractions that found a source and of
\* extractions that did not, a populated Channel Set entry comes with originalImage
\* set, and a Provider request for it completes and returns a duplicate.
C25_PopulatedEntriesServed ==
    \A i \in 1..NumChannelSlots :
        splitInvertedChannels[i] # null =>
            /\ originalImage # null
            /\ \A useFrames \in BOOLEAN :
                  /\ ~Provided(i, useFrames).threw
                  /\ Provided(i, useFrames).ret # null

\* An extraction, every window closed by the user, an extraction that found no image:
\* entry 1 is still populated, originalImage is null and a request for "Ch1" returns
\* nothing.
C25_Witness ==
    /\ last.op = "extract"
    /\ last.curBefore = null
    /\ messages = <<"Error">>
    /\ splitInvertedChannels[1] # null
    /\ ~heap[splitInvertedChannels[1]].open
    /\ originalImage = null
    /\ Provided(1, FALSE).ret = null

\* ------------------------------------------------------------------------
\* The Channel Set after "Close generated images" (Spec).
\* C26: in every state every populated Channel Set entry refers to an open image, also
\* after "Close generated images", and no alignment pass is ended by the Provider
\* failing on a closed channel image.
C26_EntriesStayOpen ==
    /\ \A i \in 1..NumChannelSlots :
          splitInvertedChannels[i] # null => heap[splitInvertedChannels[i]].open
    /\ last.op = "align" => ~last.threw

\* Extract, Close generated images, Align with "Ch1": the source is the only window,
\* entry 1 still refers to the channel image that was closed, and the pass ended in the
\* Provider.
C26_Witness ==
    /\ last.op = "align"
    /\ last.choices[1] = "Ch1"
    /\ last.threw
    /\ originalImage # null
    /\ heap[originalImage].kind = "source"
    /\ \A id \in 1..Len(heap) : heap[id].visible <=> id = originalImage
    /\ splitInvertedChannels[1] # null
    /\ heap[splitInvertedChannels[1]].kind = "split"
    /\ ~heap[splitInvertedChannels[1]].open
    /\ finalAlignedImage = null

\* ------------------------------------------------------------------------
\* The two versions (SpecVersions).
\* C27: with "use frames" never checked, after every press of Extract, Create Merge,
\* Align or Close version 2.0 has made of the state exactly what version 1.0 makes of
\* it: the same images (dimensions, bit depth, calibration, visibility), the same Channel
\* Set and references, the same merge counter, the same message boxes and the same
\* result; and version 2.0's full-stack entries are all null.
C27_SameAsVersion1 ==
    last.op # "none" =>
        /\ heap = last.v1.w.heap
        /\ currentImage = last.v1.w.cur
        /\ originalImage = last.v1.w.orig
        /\ duplicatedCroppedImage = last.v1.w.dupc
        /\ splitInvertedChannels = last.v1.w.sic
        /\ finalAlignedImage = last.v1.w.final
        /\ mergeCount = last.v1.w.mergeCount
        /\ messages = last.v1.w.msgs
        /\ last.ret = last.v1.ret
        /\ last.threw = last.v1.threw
        /\ \A i \in 1..NumChannelSlots : splitInvertedChannelsFullStack[i] = null

\* A source with two frames: after Extract, Create Merge and Align with "Ch1" and
\* "Merge", both versions have made the same one-frame montage of a channel copy and a
\* composite.
C27_Witness ==
    /\ last.op = "align"
    /\ heap[1].nFrames > 1
    /\ last.ret # null
    /\ last.v1.ret = last.ret
    /\ heap[last.ret].kind = "stacked"
    /\ heap[last.ret].nFrames = 1
    /\ heap[last.ret] = last.v1.w.heap[last.ret]
    /\ heap[heap[last.ret].blocks[1][1].img].kind = "dup16"
    /\ heap[heap[last.ret].blocks[1][2].img].kind = "merged"
    /\ \E id \in 1..last.nBefore : heap[id].kind = "merged" /\ heap[id].visible

====
